---- MODULE Spec2Model ----
(***************************************************************************)
(* Model of the idasen desk controller (src/idasen/__init__.py).           *)
(*                                                                         *)
(* Heights and speeds are fixed-point integers in units of 1/100000 m      *)
(* (1/100000 m/s), ten units per counter step of the desk.  Coroutines are *)
(* modelled at the granularity asyncio gives them: one step runs from the  *)
(* completion of one await to the issue of the next transport call.        *)
(***************************************************************************)
EXTENDS Integers, Sequences, FiniteSets, TLC

----------------------------------------------------------------------------
(* Bounds of the model *)

\* number of stop() calls that may be in progress at the same time
NumStops == 2
\* number of accepted move_to_target() calls, each with its do_move task,
\* during one run
MaxTasks == 2
\* largest number of parameters of a callback handed to monitor()
MaxParams == 3
\* number of notifications the transport delivers during one run
MaxFrames == 3
\* number of monitor() calls that register a listener during one run
MaxListeners == 1
\* largest length of a frame handed to the decoder
MaxLen == 5
\* how many advertisements a scan detects at most
MaxDevices == 2

----------------------------------------------------------------------------
(* Program constants *)

\* IdasenDesk.MIN_HEIGHT = 0.62 m
MIN_HEIGHT == 62000
\* IdasenDesk.MAX_HEIGHT = 1.27 m
MAX_HEIGHT == 127000
\* IdasenDesk.RETRY_COUNT
RETRY_COUNT == 3

_UUID_HEIGHT == "99fa0021"
_UUID_COMMAND == "99fa0002"
_UUID_REFERENCE_INPUT == "99fa0031"
_UUID_DPG == "99fa0011"
_UUID_ADV_SVC == "99fa0001"
\* the identifiers monitor() looks for
output_service_uuid == "99fa0020"
output_char_uuid == "99fa0021"

_COMMAND_REFERENCE_INPUT_STOP == <<1, 128>>
_COMMAND_STOP == <<255, 0>>
_COMMAND_WAKEUP == <<254, 0>>

----------------------------------------------------------------------------
(* Unit codec *)

\* an unpacking of the height with the signed format "<h"
U16LE_signed(lo, hi) == IF lo + 256 * hi >= 32768 THEN lo + 256 * hi - 65536 ELSE lo + 256 * hi

\* struct.unpack("<H", ..) of two bytes
U16LE(lo, hi) == lo + 256 * hi

\* an unpacking of the speed with the unsigned format "<H"
S16LE_unsigned(lo, hi) == U16LE(lo, hi)

\* struct.unpack("<h", ..) of two bytes
S16LE(lo, hi) == IF U16LE(lo, hi) >= 32768 THEN U16LE(lo, hi) - 65536 ELSE U16LE(lo, hi)

\* an assertion that lets longer frames pass
LengthOk_atleast(raw) == Len(raw) >= 4

\* `raw_len == expected_len`, with expected_len = 4
LengthOk(raw) == Len(raw) = 4

\* _bytes_to_meters_and_speed: the assertion on the length, then the decoding
_bytes_to_meters_and_speed(raw) ==
    IF ~LengthOk(raw)
    THEN [ok |-> FALSE, meters |-> 0, speed |-> 0]
    ELSE [ok |-> TRUE,
          meters |-> U16LE(raw[1], raw[2]) * 10 + MIN_HEIGHT,
          speed |-> S16LE(raw[3], raw[4]) * 10]

\* the heights, among those the model encodes, for which the double
\* (meters - 0.62) * 10000 comes out just below the whole number it stands
\* for: 0.6201, 0.6202, 0.6203, 0.6999 and 0.7
ProductRoundedBelow ==
    {MIN_HEIGHT + 10, MIN_HEIGHT + 20, MIN_HEIGHT + 30, MIN_HEIGHT + 7990, MIN_HEIGHT + 8000}

\* an encoder that writes the counter 0 for every height
_meters_to_bytes_lowest(meters) == <<0, 0>>

\* _meters_to_bytes: int() truncates the product, a double, and "<H" packs it
_meters_to_bytes(meters) ==
    LET exact == (meters - MIN_HEIGHT) \div 10
        int_raw == IF meters \in ProductRoundedBelow THEN exact - 1 ELSE exact
    IN  <<int_raw % 256, int_raw \div 256>>

----------------------------------------------------------------------------
(* Inputs *)

\* targets handed to move_to_target: both limits, their outer neighbours on
\* the counter grid
Targets == {MIN_HEIGHT - 10, MIN_HEIGHT, MAX_HEIGHT, MAX_HEIGHT + 10}

\* frames the telemetry characteristic may deliver to a read
ReadFrames ==
    {_meters_to_bytes(t) \o <<s, 0>> : t \in {MIN_HEIGHT, MAX_HEIGHT}, s \in {0, 1}}
    \cup {<<0, 0>>}

----------------------------------------------------------------------------
(* State *)

VARIABLES
    _moving,      \* IdasenDesk._moving
    _move_task,   \* IdasenDesk._move_task: 0 is None, otherwise the task's number
    tasks,        \* the accepted move_to_target() calls and their do_move tasks
    stops,        \* the coroutine frames of the stop() calls in progress
    io,           \* the transport call issued last
    event,        \* how the call of the public interface that ran last ended
    _exit_on_fail,  \* IdasenDesk._exit_on_fail
    is_connected, \* the transport's connected state, which is_connected reads
    conn,         \* the coroutine frame of connect(): where it is, and its i
    trace,        \* what the connect() call in progress, or the last one, did
    services,     \* the transport's services: self._client.services
    mon,          \* the coroutine frame of monitor(): where it is, how it ended
    listeners,    \* the output_listener closures registered with start_notify
    received,     \* the notifications the transport has delivered: how many, and the last
    calls,        \* the invocations of the callbacks handed to monitor(): how many, and the last
    codec,        \* the conversion that ran last: its argument and its result
    got,          \* the coroutine frame of get_height(), get_speed() or get_height_and_speed()
    devices,      \* the advertisements a scan detects, in the order it detects them
    scan,         \* the coroutine frame of discover(): where it is, what it returned
    desk,         \* the actuator behind the transport: its height, what it was told
    file,         \* the configuration file at IDASEN_CONFIG_PATH
    cli           \* the process of the command line: what main() was given, and how far it is

move_vars == <<_moving, _move_task, tasks, stops, io, event>>
conn_vars == <<_exit_on_fail, is_connected, conn, trace>>
mon_vars == <<services, mon, listeners, received, calls>>
cli_vars == <<file, cli>>
more_vars == <<got, devices, scan, desk, cli_vars>>
vars == <<_moving, _move_task, tasks, stops, io, event, _exit_on_fail, is_connected, conn, trace,
          services, mon, listeners, received, calls, codec, got, devices, scan, desk,
          file, cli>>

StopIds == 1..NumStops
TaskIds == 1..MaxTasks

\* pc: where do_move is; caller: whether the move_to_target() call that created
\* the task still awaits it; stopped: whether stop() was called during the task;
\* sleep: the delay of the asyncio.sleep it awaits, in tenths of a second;
\* speed: do_move's local `speed`, [] while unbound
NoTask ==
    [pc |-> "none", target |-> 0, caller |-> "none", stopped |-> FALSE, sleep |-> 0,
     speed |-> <<>>]

\* task: _move_task as stop() read it; live: whether that task was running
\* then; accepted: whether a move_to_target() was accepted since
NoStop == [pc |-> "idle", task |-> 0, live |-> FALSE, accepted |-> FALSE]

Created == {k \in TaskIds : tasks[k].pc # "none"}
Finished(k) == tasks[k].pc \in {"done", "failed"}
InFlight == {k \in Created : ~Finished(k)}

\* no call has just ended: the call that ran last is suspended in an await
Pending == [op |-> "none", outcome |-> "pending", wrote |-> 0, task |-> 0, live |-> FALSE,
            accepted |-> FALSE]

\* a new stop() runs in the lowest free frame: frames are interchangeable
IdleStops == {c \in StopIds : stops[c].pc = "idle"}
FreeFrame(c) == c \in IdleStops /\ \A d \in IdleStops : c <= d

\* the record of one transport call: response is the `response` argument of a
\* write ("default" when the call leaves it out), by the do_move task that
\* issued it (0 for stop())
Transport(kind, uuid, data, response, by) ==
    [kind |-> kind, uuid |-> uuid, data |-> data, response |-> response, by |-> by]

\* the record of a call of the public interface that has ended: how it ended
\* and, for stop(), how many of its two writes it issued and what its frame
\* had noted
Ended(op, outcome, f) ==
    [op |-> op, outcome |-> outcome, wrote |-> IF f.pc \in {"gather2", "gather2x"} THEN 2 ELSE 0,
     task |-> f.task, live |-> f.live, accepted |-> f.accepted]

\* one service of the transport: its uuid, and the characteristics its
\* get_characteristic() finds
Service(uuid, chrs) == [uuid |-> uuid, chrs |-> chrs]

\* the services of a desk as the program uses them: the control service and
\* the output service with the height and speed characteristic
DeskServices ==
    <<Service(_UUID_ADV_SVC, {_UUID_COMMAND}), Service(output_service_uuid, {output_char_uuid})>>

\* no monitor() call was made yet
NoMonitor ==
    [pc |-> "idle", params |-> 0, outcome |-> "none", log |-> "none", issued |-> 0, before |-> 0]

\* no notification was delivered yet
NoneReceived == [n |-> 0, listener |-> 0, data |-> <<>>]

\* no callback was invoked yet: frame is the number of the notification that
\* led to the invocation
NoCalls == [n |-> 0, listener |-> 0, frame |-> 0, args |-> <<>>]

\* no conversion ran yet
NoConversion == [op |-> "none", arg |-> <<>>, ok |-> TRUE, meters |-> 0, speed |-> 0, bytes |-> <<>>]

\* no get_height(), get_speed() or get_height_and_speed() call was made yet:
\* before is the frame the call before this one read
NoRead ==
    [fn |-> "none", pc |-> "idle", reads |-> 0, writes |-> 0, raw |-> <<>>, result |-> <<>>,
     before |-> <<>>]

\* no discover() call was made yet: scans counts the scans of the call, filter
\* is the filter it handed to the scanner, scanner how the scan ended, result
\* what discover returned ([] for None)
NoScan ==
    [pc |-> "idle", scans |-> 0, filter |-> "none", scanner |-> "none", result |-> <<>>]

\* an actuator at its lowest height that was told nothing yet: requested is
\* the height the last reference-input write asked for (0: none); of the move
\* in progress, first is the height it read first (0: none), polled how its
\* last speed poll ended, and read the height of the frame that poll got
NoDesk ==
    [height |-> MIN_HEIGHT, mode |-> "moves", requested |-> 0, first |-> 0, polled |-> "none",
     read |-> 0]

\* a mapping with no key: {}
Empty == [n \in {} |-> 0]

\* a configuration, as yaml loads and dumps it: the mapping under
\* "positions" when the key is there (positions_key), the values under
\* "mac_address", "sit_height" and "stand_height" ("" and 0: no such key),
\* and whether there is a key besides these
NoConfig ==
    [positions_key |-> FALSE, positions |-> Empty, mac_address |-> "", sit_height |-> 0,
     stand_height |-> 0, extra |-> FALSE]

\* no file at IDASEN_CONFIG_PATH
NoFile == [exists |-> FALSE, config |-> NoConfig]

\* no process of the command line runs, and none ran: sub and name are the
\* subcommand and its argument, config is what load_config returned, rc the
\* exit status, and wrote names the functions that called save_config
NoCli ==
    [pc |-> "none", sub |-> "", name |-> "", mac_address |-> "", config |-> NoConfig, rc |-> 0,
     wrote |-> <<>>]

\* the state after IdasenDesk(mac, exit_on_fail)
Constructed(exit_on_fail) ==
    /\ _exit_on_fail = exit_on_fail
    /\ is_connected = FALSE
    /\ conn = [pc |-> "idle", i |-> 0, status |-> 0]
    /\ trace = <<>>
    /\ _moving = FALSE
    /\ _move_task = 0
    /\ tasks = [k \in TaskIds |-> NoTask]
    /\ stops = [c \in StopIds |-> NoStop]
    /\ io = [kind |-> "none", uuid |-> "", data |-> <<>>, response |-> "none", by |-> 0]
    /\ event = Pending
    /\ mon = NoMonitor
    /\ listeners = <<>>
    /\ received = NoneReceived
    /\ calls = NoCalls
    /\ codec = NoConversion
    /\ got = NoRead
    /\ scan = NoScan
    /\ cli = NoCli

\* nothing advertises nearby, the actuator rests at its lowest height, and
\* there is no configuration file
Quiet == devices = <<>> /\ desk = NoDesk /\ file = NoFile

Init == Constructed(FALSE) /\ services = DeskServices /\ Quiet

----------------------------------------------------------------------------
(* move_to_target *)

\* a range check that also refuses the two limits
RangeError_exclusive(target) == target >= MAX_HEIGHT \/ target <= MIN_HEIGHT

\* the range check of move_to_target
RangeError(target) == target > MAX_HEIGHT \/ target < MIN_HEIGHT

\* a move_to_target that never rejects a second session
AlreadyMoving_never == FALSE

\* the test that rejects a second session
AlreadyMoving == _moving

\* move_to_target up to its first await: the range check, the rejection of a
\* second session, otherwise the flag, the new task and the await on it
MoveToTarget(target) ==
    IF RangeError(target)
    THEN /\ event' = Ended("move_to_target", "ValueError", NoStop)
         /\ UNCHANGED <<_moving, _move_task, tasks, stops, io>>
    ELSE IF AlreadyMoving
    THEN /\ event' = Ended("move_to_target", "already_moving", NoStop)
         /\ UNCHANGED <<_moving, _move_task, tasks, stops, io>>
    ELSE LET k == Cardinality(Created) + 1
         IN  /\ k <= MaxTasks
             /\ _moving' = TRUE
             /\ _move_task' = k
             /\ tasks' = [tasks EXCEPT ![k] = [NoTask EXCEPT !.pc = "new", !.target = target,
                                                             !.caller = "awaiting"]]
             /\ stops' = [c \in StopIds |->
                            IF stops[c].pc # "idle" THEN [stops[c] EXCEPT !.accepted = TRUE]
                            ELSE stops[c]]
             /\ event' = Pending
             /\ UNCHANGED io

\* a move_to_target that returns whatever its task did
MoveToTargetResume_swallow(k) ==
    /\ tasks[k].caller = "awaiting"
    /\ Finished(k)
    /\ tasks' = [tasks EXCEPT ![k].caller = "ended", ![k].speed = <<>>]
    /\ _moving' = FALSE
    /\ event' = Ended("move_to_target", "returned", NoStop)
    /\ UNCHANGED <<_move_task, stops, io>>

\* move_to_target after `await self._move_task`: the flag is cleared when the
\* task returned, and the task's exception leaves the call when it raised; the
\* finished task's locals are gone
MoveToTargetResume(k) ==
    /\ tasks[k].caller = "awaiting"
    /\ Finished(k)
    /\ tasks' = [tasks EXCEPT ![k].caller = "ended", ![k].speed = <<>>]
    /\ IF tasks[k].pc = "done"
       THEN /\ _moving' = FALSE
            /\ event' = Ended("move_to_target", "returned", NoStop)
       ELSE /\ _moving' = _moving
            /\ event' = Ended("move_to_target", "raised", NoStop)
    /\ UNCHANGED <<_move_task, stops, io>>

----------------------------------------------------------------------------
(* do_move: the task move_to_target creates.  Every transport call either   *)
(* completes or raises; a raised call ends the task with its exception.    *)

SetPc(k, pc) == tasks' = [tasks EXCEPT ![k].pc = pc]

\* a loop that is left at its head whatever the flag says
LoopHead_once(k, speed) ==
    /\ tasks' = [tasks EXCEPT ![k].pc = "done", ![k].speed = speed]
    /\ UNCHANGED io

\* the head of `while self._moving`, reached with the local `speed` bound to
\* speed ([]: unbound): the next reference-input write is issued in the same
\* step as the test of the flag, or the loop is left
LoopHead(k, speed) ==
    IF _moving
    THEN /\ tasks' = [tasks EXCEPT ![k].pc = "await_ref", ![k].speed = speed]
         /\ io' = Transport("write", _UUID_REFERENCE_INPUT, _meters_to_bytes(tasks[k].target), "default", k)
    ELSE /\ tasks' = [tasks EXCEPT ![k].pc = "done", ![k].speed = speed]
         /\ UNCHANGED io

\* a loop that no speed ends
SpeedIsZero_never(speed) == FALSE

\* the test that ends the loop on the speed that was read
SpeedIsZero(speed) == speed = 0

\* the task's first step: get_height() issues its read
DoMoveStart(k) ==
    /\ tasks[k].pc = "new"
    /\ SetPc(k, "await_height")
    /\ io' = Transport("read", _UUID_HEIGHT, <<>>, "none", k)
    /\ UNCHANGED <<_moving, _move_task, stops, event>>

\* a do_move that issues WAKEUP whatever height it read
DoMoveHeight_wake(k, raw) ==
    /\ tasks[k].pc = "await_height"
    /\ LET r == _bytes_to_meters_and_speed(raw)
       IN  IF ~r.ok
           THEN SetPc(k, "failed") /\ UNCHANGED io
           ELSE /\ SetPc(k, "await_wakeup")
                /\ io' = Transport("write", _UUID_COMMAND, _COMMAND_WAKEUP, "default", k)
    /\ UNCHANGED <<_moving, _move_task, stops, event>>

\* get_height() completes: nothing is written when the desk is at the target,
\* otherwise WAKEUP is issued
DoMoveHeight(k, raw) ==
    /\ tasks[k].pc = "await_height"
    /\ LET r == _bytes_to_meters_and_speed(raw)
       IN  IF ~r.ok
           THEN SetPc(k, "failed") /\ UNCHANGED io
           ELSE IF r.meters = tasks[k].target
           THEN SetPc(k, "done") /\ UNCHANGED io
           ELSE /\ SetPc(k, "await_wakeup")
                /\ io' = Transport("write", _UUID_COMMAND, _COMMAND_WAKEUP, "default", k)
    /\ UNCHANGED <<_moving, _move_task, stops, event>>

\* a task that enters the loop without writing STOP
DoMoveWakeup_skip(k) ==
    /\ tasks[k].pc = "await_wakeup"
    /\ tasks' = [tasks EXCEPT ![k].pc = "await_ref"]
    /\ io' = Transport("write", _UUID_REFERENCE_INPUT, _meters_to_bytes(tasks[k].target), "default", k)
    /\ UNCHANGED <<_moving, _move_task, stops, event>>

\* the WAKEUP write completes: STOP is issued
DoMoveWakeup(k) ==
    /\ tasks[k].pc = "await_wakeup"
    /\ SetPc(k, "await_stop")
    /\ io' = Transport("write", _UUID_COMMAND, _COMMAND_STOP, "default", k)
    /\ UNCHANGED <<_moving, _move_task, stops, event>>

\* the STOP write completes: the loop is entered
DoMoveStop(k) ==
    /\ tasks[k].pc = "await_stop"
    /\ LoopHead(k, <<>>)
    /\ UNCHANGED <<_moving, _move_task, stops, event>>

\* the reference-input write completes: asyncio.sleep(0.2) is awaited (sleep
\* is the delay asked for, in tenths of a second); `speed` is not read again
\* before get_speed() binds it anew, and is dropped
DoMoveWritten(k) ==
    /\ tasks[k].pc = "await_ref"
    /\ tasks' = [tasks EXCEPT ![k].pc = "sleeping", ![k].sleep = 2, ![k].speed = <<>>]
    /\ UNCHANGED <<_moving, _move_task, stops, io, event>>

\* the sleep elapses: get_speed() issues its read
DoMoveSlept(k) ==
    /\ tasks[k].pc = "sleeping"
    /\ tasks' = [tasks EXCEPT ![k].pc = "await_speed", ![k].sleep = 0]
    /\ io' = Transport("read", _UUID_HEIGHT, <<>>, "none", k)
    /\ UNCHANGED <<_moving, _move_task, stops, event>>

\* get_speed() completes and binds `speed`: break on speed zero, otherwise
\* back to the loop head
DoMoveSpeed(k, raw) ==
    /\ tasks[k].pc = "await_speed"
    /\ LET r == _bytes_to_meters_and_speed(raw)
       IN  IF ~r.ok
           THEN SetPc(k, "failed") /\ UNCHANGED io
           ELSE IF SpeedIsZero(r.speed)
           THEN tasks' = [tasks EXCEPT ![k].pc = "done", ![k].speed = <<r.speed>>] /\ UNCHANGED io
           ELSE LoopHead(k, <<r.speed>>)
    /\ UNCHANGED <<_moving, _move_task, stops, event>>

\* the transport call the task awaits raises
DoMoveTransportError(k) ==
    /\ tasks[k].pc \in {"await_height", "await_wakeup", "await_stop", "await_ref", "await_speed"}
    /\ SetPc(k, "failed")
    /\ UNCHANGED <<_moving, _move_task, stops, io, event>>

----------------------------------------------------------------------------
(* stop *)

\* a stop() that never awaits the task
HasMoveTask_never == FALSE

\* `if self._move_task`: whether stop() has a task to await
HasMoveTask == _move_task # 0

\* what stop() does once `await self._move_task` is over or was skipped: the
\* exception of an awaited task leaves stop(), otherwise _stop() gathers the
\* two writes
AfterAwait(c, f, awaited) ==
    IF awaited /\ tasks[f.task].pc = "failed"
    THEN /\ stops' = [stops EXCEPT ![c] = NoStop]
         /\ event' = Ended("stop", "raised_by_task", f)
    ELSE /\ stops' = [stops EXCEPT ![c] = [f EXCEPT !.pc = "gather0"]]
         /\ event' = Pending

\* stop() up to its first await: the flag is cleared; a finished task is
\* awaited without suspending
Stop(c) ==
    /\ FreeFrame(c)
    /\ _moving' = FALSE
    /\ tasks' = [j \in TaskIds |-> [tasks[j] EXCEPT !.stopped = @ \/ j \in InFlight]]
    /\ LET f == [NoStop EXCEPT !.task = _move_task, !.live = (_move_task \in InFlight)]
       IN  IF HasMoveTask /\ _move_task \in InFlight
           THEN /\ stops' = [stops EXCEPT ![c] = [f EXCEPT !.pc = "await_task"]]
                /\ event' = Pending
           ELSE AfterAwait(c, f, HasMoveTask)
    /\ UNCHANGED <<_move_task, io>>

\* stop() after `await self._move_task`: awaiters are woken in the order of
\* their awaits, and move_to_target awaits its task as it creates it
StopResume(c) ==
    /\ stops[c].pc = "await_task"
    /\ Finished(stops[c].task)
    /\ tasks[stops[c].task].caller = "ended"
    /\ AfterAwait(c, stops[c], TRUE)
    /\ UNCHANGED <<_moving, _move_task, tasks, io>>

\* _stop(): the first gathered write, STOP on the command characteristic
StopWriteCommand(c) ==
    /\ stops[c].pc = "gather0"
    /\ stops' = [stops EXCEPT ![c].pc = "gather1"]
    /\ io' = Transport("write", _UUID_COMMAND, _COMMAND_STOP, "False", 0)
    /\ UNCHANGED <<_moving, _move_task, tasks, event>>

\* the STOP write raises as it is called: the gather does not cancel the
\* write gathered with it, which starts before stop() is resumed
StopWriteCommandRaised(c) ==
    /\ stops[c].pc = "gather1"
    /\ stops' = [stops EXCEPT ![c].pc = "gather1x"]
    /\ UNCHANGED <<_moving, _move_task, tasks, io, event>>

\* _stop(): the second gathered write, on the reference-input characteristic
StopWriteReferenceInput(c) ==
    /\ stops[c].pc \in {"gather1", "gather1x"}
    /\ stops' = [stops EXCEPT ![c].pc = IF stops[c].pc = "gather1" THEN "gather2" ELSE "gather2x"]
    /\ io' = Transport("write", _UUID_REFERENCE_INPUT, _COMMAND_REFERENCE_INPUT_STOP, "False", 0)
    /\ UNCHANGED <<_moving, _move_task, tasks, event>>

\* the gather is over: stop() returns, or raises what a write raised
StopEnd(c, ok) ==
    /\ stops[c].pc = "gather2" \/ (stops[c].pc = "gather2x" /\ ~ok)
    /\ stops' = [stops EXCEPT ![c] = NoStop]
    /\ event' = Ended("stop", IF ok THEN "returned" ELSE "raised_by_write", stops[c])
    /\ UNCHANGED <<_moving, _move_task, tasks, io>>

----------------------------------------------------------------------------
(* The movement controller under every interleaving of its coroutines *)

Next ==
    \/ \E t \in Targets : MoveToTarget(t) /\ UNCHANGED <<conn_vars, mon_vars, codec, more_vars>>
    \/ \E k \in TaskIds : MoveToTargetResume(k) /\ UNCHANGED <<conn_vars, mon_vars, codec, more_vars>>
    \/ \E k \in TaskIds : DoMoveStart(k) /\ UNCHANGED <<conn_vars, mon_vars, codec, more_vars>>
    \/ \E k \in TaskIds, raw \in ReadFrames : DoMoveHeight(k, raw) /\ UNCHANGED <<conn_vars, mon_vars, codec, more_vars>>
    \/ \E k \in TaskIds : DoMoveWakeup(k) /\ UNCHANGED <<conn_vars, mon_vars, codec, more_vars>>
    \/ \E k \in TaskIds : DoMoveStop(k) /\ UNCHANGED <<conn_vars, mon_vars, codec, more_vars>>
    \/ \E k \in TaskIds : DoMoveWritten(k) /\ UNCHANGED <<conn_vars, mon_vars, codec, more_vars>>
    \/ \E k \in TaskIds : DoMoveSlept(k) /\ UNCHANGED <<conn_vars, mon_vars, codec, more_vars>>
    \/ \E k \in TaskIds, raw \in ReadFrames : DoMoveSpeed(k, raw) /\ UNCHANGED <<conn_vars, mon_vars, codec, more_vars>>
    \/ \E k \in TaskIds : DoMoveTransportError(k) /\ UNCHANGED <<conn_vars, mon_vars, codec, more_vars>>
    \/ \E c \in StopIds : Stop(c) /\ UNCHANGED <<conn_vars, mon_vars, codec, more_vars>>
    \/ \E c \in StopIds : StopResume(c) /\ UNCHANGED <<conn_vars, mon_vars, codec, more_vars>>
    \/ \E c \in StopIds : StopWriteCommand(c) /\ UNCHANGED <<conn_vars, mon_vars, codec, more_vars>>
    \/ \E c \in StopIds : StopWriteCommandRaised(c) /\ UNCHANGED <<conn_vars, mon_vars, codec, more_vars>>
    \/ \E c \in StopIds : StopWriteReferenceInput(c) /\ UNCHANGED <<conn_vars, mon_vars, codec, more_vars>>
    \/ \E c \in StopIds, ok \in BOOLEAN : StopEnd(c, ok) /\ UNCHANGED <<conn_vars, mon_vars, codec, more_vars>>

Spec == Init /\ [][Next]_vars

----------------------------------------------------------------------------
(* connect, wakeup, disconnect *)

\* the payloads wakeup() writes to the DPG characteristic
_DPG_STAGE_1 == <<127, 134, 0>>
_DPG_STAGE_2 == <<127, 134, 128, 1, 2, 3, 4, 5, 6, 7, 8, 9, 10, 11, 12, 13, 14, 15, 16, 17>>

\* one entry of the trace of a connect() call
Did(what, uuid, data, n) == [what |-> what, uuid |-> uuid, data |-> data, n |-> n]
Attempt == Did("connect", "", <<>>, 0)
Write(uuid, data) == Did("write", uuid, data, 0)
Warning(i) == Did("warning", "", <<>>, i)
Critical == Did("critical", "", <<>>, 0)
\* a sleep of 0.3 s whatever the attempt
Sleep_fixed(i) == Did("sleep", "", <<>>, 3)

\* asyncio.sleep(0.3 * i), in tenths of a second
Sleep(i) == Did("sleep", "", <<>>, 3 * i)

\* a retry test that allows one attempt too many
RetriesExhausted_late(i) == i > RETRY_COUNT

\* a retry test that gives up one attempt early
RetriesExhausted_early(i) == i >= RETRY_COUNT - 1

\* `if i >= self.RETRY_COUNT`
RetriesExhausted(i) == i >= RETRY_COUNT

\* connect() is called: the first transport connect is issued
Connect ==
    /\ conn.pc \in {"idle", "returned", "raised"}
    /\ conn' = [pc |-> "await_connect", i |-> 0, status |-> 0]
    /\ trace' = <<Attempt>>
    /\ UNCHANGED <<_exit_on_fail, is_connected>>

\* the transport connect completes: wakeup() issues its first write
ConnectDone ==
    /\ conn.pc = "await_connect"
    /\ is_connected' = TRUE
    /\ conn' = [conn EXCEPT !.pc = "await_dpg1"]
    /\ trace' = Append(trace, Write(_UUID_DPG, _DPG_STAGE_1))
    /\ UNCHANGED _exit_on_fail

\* a wakeup() that leaves out the second write to the DPG characteristic
WakeupWriteDone_skip ==
    /\ conn.pc \in {"await_dpg1", "await_wakeup"}
    /\ is_connected
    /\ CASE conn.pc = "await_dpg1" ->
               /\ conn' = [conn EXCEPT !.pc = "await_wakeup"]
               /\ trace' = Append(trace, Write(_UUID_COMMAND, _COMMAND_WAKEUP))
         [] conn.pc = "await_wakeup" ->
               /\ conn' = [conn EXCEPT !.pc = "returned"]
               /\ trace' = trace
    /\ UNCHANGED <<_exit_on_fail, is_connected>>

\* a write of wakeup() completes, which a dropped link does not allow: the
\* next write is issued, or wakeup() and with it connect() return
WakeupWriteDone ==
    /\ conn.pc \in {"await_dpg1", "await_dpg2", "await_wakeup"}
    /\ is_connected
    /\ CASE conn.pc = "await_dpg1" ->
               /\ conn' = [conn EXCEPT !.pc = "await_dpg2"]
               /\ trace' = Append(trace, Write(_UUID_DPG, _DPG_STAGE_2))
         [] conn.pc = "await_dpg2" ->
               /\ conn' = [conn EXCEPT !.pc = "await_wakeup"]
               /\ trace' = Append(trace, Write(_UUID_COMMAND, _COMMAND_WAKEUP))
         [] conn.pc = "await_wakeup" ->
               /\ conn' = [conn EXCEPT !.pc = "returned"]
               /\ trace' = trace
    /\ UNCHANGED <<_exit_on_fail, is_connected>>

\* the transport connect or a write of wakeup() raises: `except Exception`,
\* which gives up with the critical message and sys.exit(1) or the raise, or
\* counts, warns and sleeps
ConnectFailed ==
    /\ conn.pc \in {"await_connect", "await_dpg1", "await_dpg2", "await_wakeup"}
    /\ IF RetriesExhausted(conn.i)
       THEN /\ trace' = Append(trace, Critical)
            /\ conn' = IF _exit_on_fail
                       THEN [conn EXCEPT !.pc = "exited", !.status = 1]
                       ELSE [conn EXCEPT !.pc = "raised"]
       ELSE /\ trace' = trace \o <<Warning(conn.i + 1), Sleep(conn.i + 1)>>
            /\ conn' = [conn EXCEPT !.pc = "sleeping", !.i = conn.i + 1]
    /\ UNCHANGED <<_exit_on_fail, is_connected>>

\* the sleep is over: the next transport connect is issued
ConnectRetry ==
    /\ conn.pc = "sleeping"
    /\ conn' = [conn EXCEPT !.pc = "await_connect"]
    /\ trace' = Append(trace, Attempt)
    /\ UNCHANGED <<_exit_on_fail, is_connected>>

\* disconnect(), called when no connect() is in progress
Disconnect ==
    /\ conn.pc \in {"idle", "returned", "raised"}
    /\ is_connected' = FALSE
    /\ UNCHANGED <<_exit_on_fail, conn, trace>>

\* the transport drops the link
Drop ==
    /\ conn.pc # "exited"
    /\ is_connected
    /\ is_connected' = FALSE
    /\ UNCHANGED <<_exit_on_fail, conn, trace>>

\* an is_connected that keeps what the last connect() call found
IdasenDesk_is_connected_cached == conn.pc = "returned"

\* the property IdasenDesk.is_connected: the transport's state, read through
IdasenDesk_is_connected == is_connected

InitConnect ==
    (\E exit_on_fail \in BOOLEAN : Constructed(exit_on_fail)) /\ services = DeskServices /\ Quiet

NextConnect ==
    \/ Connect /\ UNCHANGED <<move_vars, mon_vars, codec, more_vars>>
    \/ ConnectDone /\ UNCHANGED <<move_vars, mon_vars, codec, more_vars>>
    \/ WakeupWriteDone /\ UNCHANGED <<move_vars, mon_vars, codec, more_vars>>
    \/ ConnectFailed /\ UNCHANGED <<move_vars, mon_vars, codec, more_vars>>
    \/ ConnectRetry /\ UNCHANGED <<move_vars, mon_vars, codec, more_vars>>
    \/ Disconnect /\ UNCHANGED <<move_vars, mon_vars, codec, more_vars>>
    \/ Drop /\ UNCHANGED <<move_vars, mon_vars, codec, more_vars>>

SpecConnect == InitConnect /\ [][NextConnect]_vars

----------------------------------------------------------------------------
(* monitor.  Readings are compared as IEEE-754 doubles; the model keeps them  *)
(* as integers and states the outcome of each comparison the doubles give.  *)

\* the numbers of parameters of the callbacks handed to monitor()
ParamCounts == 0..MaxParams

\* the services a transport may hold: another service, the output service
\* with its characteristic, the output service without it
ServiceKinds ==
    {Service(_UUID_ADV_SVC, {_UUID_COMMAND}),
     Service(output_service_uuid, {output_char_uuid}),
     Service(output_service_uuid, {})}

\* the lists of services of a transport: no uuid twice
ServiceLists ==
    {<<>>} \cup {<<a>> : a \in ServiceKinds}
           \cup {p \in {<<a, b>> : a \in ServiceKinds, b \in ServiceKinds} : p[1].uuid # p[2].uuid}

\* struct.pack("<Hh", ..): the frame of a height counter and a speed counter
Frame(int_raw, speed_raw) ==
    <<int_raw % 256, int_raw \div 256, (speed_raw % 65536) % 256, (speed_raw % 65536) \div 256>>

\* the frames the transport delivers: height counters 0.0005 m, 0.001 m and
\* 0.0012 m apart, speed counters 0.0002, 0.001 and 0.0012 m/s apart, one of
\* them negative, and a frame of the wrong length
NotifyFrames ==
    {Frame(h, v) : h \in {0, 5, 10, 12, 106, 116}, v \in {0 - 10, 0, 2, 12}} \cup {<<0, 0>>}

\* 0.001, in the unit of the decoded readings
Threshold == 100

\* the pairs of heights of NotifyFrames exactly 0.001 m apart whose doubles
\* differ by less than 0.001: 0.6306 and 0.6316
HeightsRoundedBelow == {{MIN_HEIGHT + 1060, MIN_HEIGHT + 1160}}

\* the pairs of speeds of NotifyFrames exactly 0.001 m/s apart whose doubles
\* differ by less than 0.001: 0.0002 and 0.0012
SpeedsRoundedBelow == {{20, 120}}

\* abs(a - b) < 0.001 on doubles: the exact difference decides, except at
\* exactly 0.001, where the rounding of the two doubles does
Below001(a, b, roundedBelow) ==
    LET d == IF a >= b THEN a - b ELSE b - a
    IN  d < Threshold \/ (d = Threshold /\ {a, b} \in roundedBelow)

\* an arity check that lets callbacks with more than two parameters pass
InvalidCallback_lax(callback_param_count) == callback_param_count < 1

\* `if callback_param_count != 1 and callback_param_count != 2`
InvalidCallback(callback_param_count) ==
    callback_param_count # 1 /\ callback_param_count # 2

\* a listener that tracks the speed for every callback
return_speed_value_always(callback_param_count) == TRUE

\* `return_speed_value = callback_param_count == 2`
return_speed_value(callback_param_count) == callback_param_count = 2

\* a monitor() that does not test what get_characteristic() returned
NoCharacteristic_never(service) == FALSE

\* `chr_output is None` for the characteristic of the service
NoCharacteristic(service) == output_char_uuid \notin service.chrs

\* the service at which `for service in self._client.services` does not
\* `continue`: the first one with the uuid of the output service, 0 if none
OutputService ==
    LET found == {n \in DOMAIN services : services[n].uuid = output_service_uuid}
    IN  IF found = {} THEN 0 ELSE CHOOSE n \in found : \A m \in found : n <= m

\* how a monitor() call has ended, or that it awaits start_notify: issued
\* counts its transport calls, before the listeners registered at the call
Monitored(pc, params, outcome, log, issued) ==
    [pc |-> pc, params |-> params, outcome |-> outcome, log |-> log, issued |-> issued,
     before |-> Len(listeners)]

\* the closure of output_listener as monitor() creates it
NewListener(params) ==
    [callback |-> params, return_speed_value |-> return_speed_value(params),
     previous_height |-> 0, previous_speed |-> 0]

\* monitor(callback) up to its await, or to its end: the arity check, the
\* search for the output service and its characteristic, start_notify
Monitor(params) ==
    /\ mon.pc \in {"idle", "returned", "raised"}
    /\ IF InvalidCallback(params)
       THEN mon' = Monitored("raised", params, "ValueError", "none", 0)
       ELSE IF OutputService = 0
       THEN mon' = Monitored("returned", params, "returned", "Output service not found", 0)
       ELSE IF NoCharacteristic(services[OutputService])
       THEN mon' = Monitored("returned", params, "returned", "No output characteristic found", 0)
       ELSE /\ Len(listeners) < MaxListeners
            /\ mon' = Monitored("start_notify", params, "pending", "none", 1)
    /\ UNCHANGED <<services, listeners, received, calls>>

\* start_notify registers output_listener: notifications may arrive from now
StartNotifyRegister ==
    /\ mon.pc = "start_notify"
    /\ listeners' = Append(listeners, NewListener(mon.params))
    /\ mon' = [mon EXCEPT !.pc = "subscribed"]
    /\ UNCHANGED <<services, received, calls>>

\* start_notify completes: monitor() returns
StartNotifyDone ==
    /\ mon.pc = "subscribed"
    /\ mon' = [mon EXCEPT !.pc = "returned", !.outcome = "returned"]
    /\ UNCHANGED <<services, listeners, received, calls>>

\* start_notify raises before it registered the listener: monitor() raises
StartNotifyFailed ==
    /\ mon.pc = "start_notify"
    /\ mon' = [mon EXCEPT !.pc = "raised", !.outcome = "raised"]
    /\ UNCHANGED <<services, listeners, received, calls>>

\* the test of output_listener that ends it without a call of the callback
Suppressed(L, height, speed) ==
    /\ Below001(height, L.previous_height, HeightsRoundedBelow)
    /\ (~L.return_speed_value \/ Below001(speed, L.previous_speed, SpeedsRoundedBelow))

\* a listener that remembers every reading it received
Remembered_always(L, height, speed, suppressed) ==
    [L EXCEPT !.previous_height = height, !.previous_speed = speed]

\* the closure after a reading: `return` leaves it, a dispatch remembers the reading
Remembered(L, height, speed, suppressed) ==
    IF suppressed THEN L ELSE [L EXCEPT !.previous_height = height, !.previous_speed = speed]

\* the arguments of the callback
Arguments(L, height, speed) == IF L.return_speed_value THEN <<height, speed>> ELSE <<height>>

\* the transport delivers a frame to a registered output_listener: a frame
\* _bytes_to_meters_and_speed refuses ends it with the assertion, otherwise the
\* reading is suppressed or remembered and handed to the callback
output_listener(l, data) ==
    LET r == _bytes_to_meters_and_speed(data)
        L == listeners[l]
        suppressed == Suppressed(L, r.meters, r.speed)
    IN  /\ received.n < MaxFrames
        /\ received' = [n |-> received.n + 1, listener |-> l, data |-> data]
        /\ IF ~r.ok
           THEN UNCHANGED <<listeners, calls>>
           ELSE /\ listeners' = [listeners EXCEPT ![l] = Remembered(L, r.meters, r.speed, suppressed)]
                /\ calls' = IF suppressed THEN calls
                            ELSE [n |-> calls.n + 1, listener |-> l, frame |-> received.n + 1,
                                  args |-> Arguments(L, r.meters, r.speed)]
        /\ UNCHANGED <<services, mon>>

InitMonitor == Constructed(FALSE) /\ services \in ServiceLists /\ Quiet

NextMonitor ==
    \/ \E params \in ParamCounts : Monitor(params) /\ UNCHANGED <<move_vars, conn_vars, codec, more_vars>>
    \/ StartNotifyRegister /\ UNCHANGED <<move_vars, conn_vars, codec, more_vars>>
    \/ StartNotifyDone /\ UNCHANGED <<move_vars, conn_vars, codec, more_vars>>
    \/ StartNotifyFailed /\ UNCHANGED <<move_vars, conn_vars, codec, more_vars>>
    \/ \E l \in DOMAIN listeners, data \in NotifyFrames :
          output_listener(l, data) /\ UNCHANGED <<move_vars, conn_vars, codec, more_vars>>

SpecMonitor == InitMonitor /\ [][NextMonitor]_vars

----------------------------------------------------------------------------
(* The unit codec on its own *)

\* the frames handed to the decoder: every frame of up to MaxLen bytes over
\* the smallest byte, the largest and the sign bit, and the frames of
\* test_bytes_to_meters_and_speed
Bytes == {0, 128, 255}

RECURSIVE FramesOfLen(_)
FramesOfLen(n) ==
    IF n = 0 THEN {<<>>}
    ELSE {Append(f, b) : f \in FramesOfLen(n - 1), b \in Bytes}

DecodeFrames ==
    UNION {FramesOfLen(n) : n \in 0..MaxLen}
        \cup {<<100, 25, 0, 0>>, <<81, 4, 0, 0>>, <<8, 8, 0, 0>>, <<8, 8, 2, 1>>}

\* the heights handed to the encoder, in steps of 0.00001 m: the lowest
\* heights, the heights around 0.7 m and below MAX_HEIGHT, 1.0 m and 1.1 m
EncodeHeights ==
    {MIN_HEIGHT + n : n \in 0..30}
        \cup {MIN_HEIGHT + 7990, MIN_HEIGHT + 7995, MIN_HEIGHT + 8000, MIN_HEIGHT + 38000,
              MIN_HEIGHT + 48000, MAX_HEIGHT - 10, MAX_HEIGHT - 4, MAX_HEIGHT}

\* what a conversion was handed and what it gave
Converted(op, arg, ok, meters, speed, bytes) ==
    [op |-> op, arg |-> arg, ok |-> ok, meters |-> meters, speed |-> speed, bytes |-> bytes]

\* _bytes_to_meters_and_speed(raw) is called
Decode(raw) ==
    LET r == _bytes_to_meters_and_speed(raw)
    IN  codec' = Converted("decode", raw, r.ok, r.meters, r.speed, <<>>)

\* _meters_to_bytes(meters) is called
Encode(meters) ==
    codec' = Converted("encode", <<meters>>, TRUE, 0, 0, _meters_to_bytes(meters))

\* the two bytes of the encoder are decoded as the height of a frame with
\* speed 0
DecodeEncoded ==
    /\ codec.op = "encode"
    /\ LET r == _bytes_to_meters_and_speed(codec.bytes \o <<0, 0>>)
       IN  codec' = Converted("decode_encoded", codec.arg, r.ok, r.meters, r.speed, codec.bytes)

NextCodec ==
    \/ \E raw \in DecodeFrames : Decode(raw) /\ UNCHANGED <<move_vars, conn_vars, mon_vars, more_vars>>
    \/ \E meters \in EncodeHeights : Encode(meters) /\ UNCHANGED <<move_vars, conn_vars, mon_vars, more_vars>>
    \/ DecodeEncoded /\ UNCHANGED <<move_vars, conn_vars, mon_vars, more_vars>>

SpecCodec == Init /\ [][NextCodec]_vars

----------------------------------------------------------------------------
(* get_height, get_speed, get_height_and_speed: one read of the telemetry   *)
(* characteristic, decoded, with no handler around the read or the decoder. *)

GetterNames == {"get_height", "get_speed", "get_height_and_speed"}

\* frames a read of the telemetry characteristic may return: the lowest
\* height, the highest, counters above the highest, and a frame too short
GetFrames ==
    {Frame(h, v) : h \in {0, 6500, 6501, 10784, 65535}, v \in {0 - 1, 0, 256}} \cup {<<0, 0>>}

\* getters that all return the height
Returned_height(fn, r) == <<r.meters>>

\* what each getter returns of the decoded pair
Returned(fn, r) ==
    IF fn = "get_height" THEN <<r.meters>>
    ELSE IF fn = "get_speed" THEN <<r.speed>>
    ELSE <<r.meters, r.speed>>

\* a getter up to its await: get_height_and_speed issues the read
Get(fn) ==
    /\ got.pc # "await_read"
    /\ got' = [fn |-> fn, pc |-> "await_read", reads |-> 1, writes |-> 0,
               raw |-> <<>>, result |-> <<>>, before |-> got.raw]
    /\ io' = Transport("read", _UUID_HEIGHT, <<>>, "none", 0)

\* the read returned raw: the decoder's result, or its AssertionError, leaves
\* the getter
GetRead(raw) ==
    /\ got.pc = "await_read"
    /\ LET r == _bytes_to_meters_and_speed(raw)
       IN  got' = [got EXCEPT !.raw = raw,
                              !.pc = IF r.ok THEN "returned" ELSE "raised",
                              !.result = IF r.ok THEN Returned(got.fn, r) ELSE <<>>]
    /\ UNCHANGED io

\* the read raised: the exception leaves the getter
GetFailed ==
    /\ got.pc = "await_read"
    /\ got' = [got EXCEPT !.pc = "raised"]
    /\ UNCHANGED io

NextRead ==
    \/ \E fn \in GetterNames :
          Get(fn) /\ UNCHANGED <<_moving, _move_task, tasks, stops, event, conn_vars, mon_vars,
                                 codec, devices, scan, desk, cli_vars>>
    \/ \E raw \in GetFrames :
          GetRead(raw) /\ UNCHANGED <<_moving, _move_task, tasks, stops, event, conn_vars,
                                      mon_vars, codec, devices, scan, desk, cli_vars>>
    \/ GetFailed /\ UNCHANGED <<_moving, _move_task, tasks, stops, event, conn_vars, mon_vars,
                                 codec, devices, scan, desk, cli_vars>>

SpecRead == Init /\ [][NextRead]_vars

----------------------------------------------------------------------------
(* discover: one scan with the filter _is_desk.  The scanner hands the      *)
(* filter each advertisement it detects and returns the first device the    *)
(* filter accepts, None when it accepts none, or raises.                    *)

\* a detected advertisement: the device and its advertisement data
Detected(address, service_uuids) ==
    [device |-> [address |-> address], adv |-> [service_uuids |-> service_uuids]]

Detections ==
    {Detected(a, u) : a \in {"AA:AA", "BB:BB"},
                      u \in {{}, {"180a"}, {_UUID_ADV_SVC}, {"180a", _UUID_ADV_SVC}}}

\* what a scan may detect: up to MaxDevices advertisements in any order
Advertisements == UNION {[1..n -> Detections] : n \in 0..MaxDevices}

\* a filter that accepts every device
_is_desk_any(device, adv) == TRUE

\* the filter discover hands to the scanner
_is_desk(device, adv) == _UUID_ADV_SVC \in adv.service_uuids

\* BleakScanner.find_device_by_filter when it does not raise: [] is None
RECURSIVE find_device_by_filter(_, _)
find_device_by_filter(filter, detected) ==
    IF detected = <<>> THEN <<>>
    ELSE IF filter = "_is_desk" /\ _is_desk(Head(detected).device, Head(detected).adv)
    THEN <<Head(detected).device>>
    ELSE find_device_by_filter(filter, Tail(detected))

\* discover up to its await: the scan is started with the filter
Discover ==
    /\ scan.pc # "scanning"
    /\ scan' = [pc |-> "scanning", scans |-> 1, filter |-> "_is_desk", scanner |-> "pending",
                result |-> <<>>]
    /\ UNCHANGED devices

\* the scan returned: None for no device, otherwise the device's address
ScanDone ==
    /\ scan.pc = "scanning"
    /\ LET device == find_device_by_filter(scan.filter, devices)
       IN  scan' = [scan EXCEPT !.pc = "returned",
                                !.scanner = IF device = <<>> THEN "none" ELSE "device",
                                !.result = IF device = <<>> THEN <<>>
                                           ELSE <<device[1].address>>]
    /\ UNCHANGED devices

\* the scan raised an Exception: discover returns None
ScanFailed ==
    /\ scan.pc = "scanning"
    /\ scan' = [scan EXCEPT !.pc = "returned", !.scanner = "raised", !.result = <<>>]
    /\ UNCHANGED devices

InitDiscover ==
    /\ Constructed(FALSE) /\ services = DeskServices
    /\ devices \in Advertisements
    /\ desk = NoDesk /\ file = NoFile

NextDiscover ==
    \/ Discover /\ UNCHANGED <<move_vars, conn_vars, mon_vars, codec, got, desk, cli_vars>>
    \/ ScanDone /\ UNCHANGED <<move_vars, conn_vars, mon_vars, codec, got, desk, cli_vars>>
    \/ ScanFailed /\ UNCHANGED <<move_vars, conn_vars, mon_vars, codec, got, desk, cli_vars>>

SpecDiscover == InitDiscover /\ [][NextDiscover]_vars

----------------------------------------------------------------------------
(* move_to_target against an actuator.  The actuator is the transport of    *)
(* the tests: a reference-input write moves it toward the height written by *)
(* at most Step, and a read reports its height and whether it is moving.    *)
(* Besides the one that moves there is one that ignores the writes, one     *)
(* that never reports speed zero, and one that moves the other way.         *)

\* the most a write moves the actuator: 0.1 m
Step == 10000

DeskModes == {"moves", "stuck", "runaway", "reverses"}

\* the heights the actuator may start at, and the targets asked for
DeskHeights == {MIN_HEIGHT, 70000, 100000, 110000, MAX_HEIGHT}

Clamp(x, lo, hi) == IF x < lo THEN lo ELSE IF x > hi THEN hi ELSE x

\* whether the actuator reports a speed other than zero
DeskMoving ==
    IF desk.mode = "moves" THEN desk.requested # 0 /\ desk.height # desk.requested
    ELSE desk.mode # "stuck"

\* what a read of the telemetry characteristic returns
DeskFrame == _meters_to_bytes(desk.height) \o (IF DeskMoving THEN <<0, 1>> ELSE <<0, 0>>)

\* the height on the 0.1 mm grid nearest to the double that holds the height
Exact(h) == 10 * ((h + 5) \div 10)

\* the heights a reference-input write of data may leave the actuator at.  The
\* height is a double: a step that ends at the requested height is exact, a
\* full step adds 0.1 and leaves the sum's rounding, kept here as at most one
\* unit (0.00001 m) around the grid, and at a distance of one step either
\* happens
DeskSteps(data) ==
    LET requested_height == _bytes_to_meters_and_speed(data \o <<0, 0>>).meters
        diff == requested_height - desk.height
        away == IF diff < 0 THEN 0 - diff ELSE diff
        full == Exact(desk.height) + (IF diff < 0 THEN 0 - Step ELSE Step)
    IN  IF desk.mode = "stuck" THEN {desk.height}
        ELSE IF desk.mode = "reverses"
        THEN {Clamp(desk.height - Clamp(diff, 0 - Step, Step), MIN_HEIGHT, MAX_HEIGHT)}
        ELSE (IF away <= Step + 1 THEN {requested_height} ELSE {})
             \cup (IF away >= Step - 1 THEN {full - 1, full, full + 1} ELSE {})

\* the actuator after a reference-input write of data that leaves it at height
DeskWritten(data, height) ==
    [desk EXCEPT !.requested = _bytes_to_meters_and_speed(data \o <<0, 0>>).meters,
                 !.height = height]

\* the actuator takes the reference-input write that task k issues in this
\* step, if it issues one; d is the actuator with what the task has read
Actuated(k, d) ==
    IF tasks'[k].pc = "await_ref"
    THEN \E height \in DeskSteps(io'.data) :
            desk' = [DeskWritten(io'.data, height) EXCEPT !.polled = d.polled, !.read = d.read]
    ELSE desk' = d

InitDesk ==
    /\ Constructed(FALSE) /\ services = DeskServices /\ devices = <<>> /\ file = NoFile
    /\ desk \in {[NoDesk EXCEPT !.height = h, !.mode = m] : h \in DeskHeights, m \in DeskModes}

\* the state that a move and the actuator leave alone
desk_rest == <<conn_vars, mon_vars, codec, got, devices, scan, cli_vars>>

\* what the event loop and the transport do once a move was accepted
DeskProgress ==
    \/ \E k \in TaskIds : MoveToTargetResume(k) /\ UNCHANGED <<desk, desk_rest>>
    \/ \E k \in TaskIds :
          /\ DoMoveStart(k)
          /\ desk' = [desk EXCEPT !.first = 0, !.polled = "none", !.read = 0]
          /\ UNCHANGED desk_rest
    \/ \E k \in TaskIds :
          /\ DoMoveHeight(k, DeskFrame)
          /\ desk' = [desk EXCEPT !.first = _bytes_to_meters_and_speed(DeskFrame).meters]
          /\ UNCHANGED desk_rest
    \/ \E k \in TaskIds : DoMoveWakeup(k) /\ UNCHANGED <<desk, desk_rest>>
    \/ \E k \in TaskIds : DoMoveStop(k) /\ Actuated(k, desk) /\ UNCHANGED desk_rest
    \/ \E k \in TaskIds : DoMoveWritten(k) /\ UNCHANGED <<desk, desk_rest>>
    \/ \E k \in TaskIds : DoMoveSlept(k) /\ UNCHANGED <<desk, desk_rest>>
    \/ \E k \in TaskIds :
          /\ DoMoveSpeed(k, DeskFrame)
          /\ Actuated(k, [desk EXCEPT !.polled = IF DeskMoving THEN "nonzero" ELSE "zero",
                                      !.read = _bytes_to_meters_and_speed(DeskFrame).meters])
          /\ UNCHANGED desk_rest

NextDesk ==
    \/ \E t \in DeskHeights : MoveToTarget(t) /\ UNCHANGED <<desk, desk_rest>>
    \/ DeskProgress

SpecDesk == InitDesk /\ [][NextDesk]_vars

\* the event loop runs a task that is ready, and the transport completes
\* every call
SpecDeskFair == SpecDesk /\ WF_vars(DeskProgress)

----------------------------------------------------------------------------
(* The command line: main() loads the configuration file and runs one       *)
(* subcommand, here save or delete.  Every invocation is a process of its   *)
(* own: what it holds in memory, its IdasenDesk included, is gone when it   *)
(* ends, and the file is what stays.                                        *)

RESERVED_NAMES == {"init", "monitor", "height", "save", "delete"}

DEFAULT_CONFIG ==
    [NoConfig EXCEPT !.positions_key = TRUE,
                     !.positions = [n \in {"stand", "sit"} |-> IF n = "stand" THEN 110000 ELSE 75000],
                     !.mac_address = "AA:AA:AA:AA:AA:AA"]

\* the addresses given, in a file or with --mac-address: one of 17
\* characters and one of 5
MacAddresses == {"AA:AA:AA:AA:AA:AA", "AA:AA"}
Length(mac_address) == IF mac_address = "AA:AA:AA:AA:AA:AA" THEN 17 ELSE 5

\* the names given to save and delete
CliNames == RESERVED_NAMES \cup {"sit", "desk"}

\* the files main() may find: none, the one init writes, one of the old
\* format, one with a key the schema does not know, one without an address,
\* the one of the tests with the position init, and one with the position
\* save at a height out of range
ConfigFiles ==
    {NoFile} \cup
    {[exists |-> TRUE, config |-> c] :
        c \in {DEFAULT_CONFIG,
               [NoConfig EXCEPT !.mac_address = "AA:AA:AA:AA:AA:AA", !.sit_height = 80000],
               [DEFAULT_CONFIG EXCEPT !.extra = TRUE],
               [DEFAULT_CONFIG EXCEPT !.mac_address = ""],
               [DEFAULT_CONFIG EXCEPT
                   !.positions = [n \in {"sit", "init"} |-> 90000]],
               [DEFAULT_CONFIG EXCEPT
                   !.positions = [n \in {"sit", "save"} |-> IF n = "sit" THEN 90000 ELSE 130000]]}}

\* the frames the read of save may return: 1.0 m, and 1.2701 m
SaveFrames == {Frame(3800, 0), Frame(6501, 0)}

\* save_config: the file holds what yaml dumps of config
save_config(config) == [exists |-> TRUE, config |-> config]

\* CONFIG_SCHEMA, with extra=False: no key but mac_address and positions, an
\* address of 17 characters, and every position a number from MIN_HEIGHT to
\* MAX_HEIGHT
CONFIG_SCHEMA(config) ==
    /\ ~config.extra /\ config.sit_height = 0 /\ config.stand_height = 0
    /\ config.mac_address # "" => Length(config.mac_address) = 17
    /\ \A position \in DOMAIN config.positions :
          config.positions[position] >= MIN_HEIGHT /\ config.positions[position] <= MAX_HEIGHT

\* a test for reserved names that no name passes
IsReserved_never(name) == FALSE

\* `in RESERVED_NAMES`
IsReserved(name) == name \in RESERVED_NAMES

\* load_config: {} when there is no file; a file without the key positions
\* is converted and saved; then the schema and the reserved names decide
\* between sys.exit(1) and the return of the configuration.  The result
\* names the exit status (0: returned), the configuration, the file as
\* load_config leaves it and whether it called save_config
load_config ==
    IF ~file.exists
    THEN [status |-> 0, config |-> NoConfig, file |-> file, wrote |-> <<>>]
    ELSE LET loaded == file.config
             config ==
                 IF loaded.positions_key THEN loaded
                 ELSE [loaded EXCEPT
                          !.positions_key = TRUE,
                          !.positions =
                              [n \in {"sit", "stand"} |->
                                 IF n = "sit"
                                 THEN (IF loaded.sit_height # 0 THEN loaded.sit_height
                                       ELSE DEFAULT_CONFIG.positions["sit"])
                                 ELSE (IF loaded.stand_height # 0 THEN loaded.stand_height
                                       ELSE DEFAULT_CONFIG.positions["stand"])],
                          !.sit_height = 0, !.stand_height = 0]
             valid ==
                 /\ CONFIG_SCHEMA(config)
                 /\ \A position \in DOMAIN config.positions : ~IsReserved(position)
         IN  [status |-> IF valid THEN 0 ELSE 1,
              config |-> config,
              file |-> IF loaded.positions_key THEN file ELSE save_config(config),
              wrote |-> IF loaded.positions_key THEN <<>> ELSE <<"load_config">>]

\* config["positions"][name] = height
Assigned(config, name, height) ==
    [config EXCEPT !.positions = [n \in DOMAIN config.positions \cup {name} |->
                                     IF n = name THEN height ELSE config.positions[n]]]

\* config["positions"].pop(name, None)
Popped(config, name) ==
    [config EXCEPT !.positions = [n \in DOMAIN config.positions \ {name} |-> config.positions[n]]]

\* the process as it ends with status rc
Exit(pc, rc, config, wrote) ==
    [cli EXCEPT !.pc = pc, !.rc = rc, !.config = config, !.wrote = wrote]

\* what IdasenDesk(mac, exit_on_fail=True) holds of the connection, which is
\* also what is left of it when the process is gone
NoConnection ==
    /\ is_connected' = FALSE
    /\ conn' = [pc |-> "idle", i |-> 0, status |-> 0]
    /\ trace' = <<>>
    /\ UNCHANGED _exit_on_fail

\* the state of the process that the connect() call leaves alone
cli_rest == <<_moving, _move_task, tasks, stops, event, mon_vars, codec, devices, scan, desk>>

\* main(argv) with the subcommand sub, its argument name and the address of
\* --mac-address ("": not given), up to the first await or to the end of the
\* process: load_config; from_config, whose parser.error exits with 2; then
\* delete, which awaits nothing, or save up to the transport connect
Main(sub, name, mac_address) ==
    /\ cli.pc \in {"none", "exited", "ended", "raised"}
    /\ LET l == load_config
           config == l.config
           mac == IF mac_address # "" THEN mac_address ELSE config.mac_address
           started == [pc |-> "connect", sub |-> sub, name |-> name, mac_address |-> mac,
                       config |-> config, rc |-> 0, wrote |-> l.wrote]
           End(pc, rc, wrote) == [started EXCEPT !.pc = pc, !.rc = rc, !.wrote = wrote]
       IN  IF l.status # 0
           THEN /\ cli' = End("exited", l.status, l.wrote)
                /\ file' = l.file
                /\ UNCHANGED <<conn_vars, got, io>>
           ELSE IF mac = ""
           THEN /\ cli' = End("exited", 2, l.wrote)
                /\ file' = l.file
                /\ UNCHANGED <<conn_vars, got, io>>
           ELSE IF sub = "save"
           THEN IF IsReserved(name)
                THEN /\ cli' = End("ended", 1, l.wrote)
                     /\ file' = l.file
                     /\ UNCHANGED <<conn_vars, got, io>>
                ELSE /\ cli' = started
                     /\ file' = l.file
                     /\ Connect
                     /\ UNCHANGED <<got, io>>
           ELSE /\ IF ~config.positions_key
                   THEN /\ cli' = End("raised", 1, l.wrote)
                        /\ file' = l.file
                   ELSE IF IsReserved(name)
                   THEN /\ cli' = [End("ended", 1, l.wrote) EXCEPT !.config = Popped(config, name)]
                        /\ file' = l.file
                   ELSE IF name \notin DOMAIN config.positions
                   THEN /\ cli' = End("ended", 0, l.wrote)
                        /\ file' = l.file
                   ELSE /\ cli' = [End("ended", 0, Append(l.wrote, "delete"))
                                      EXCEPT !.config = Popped(config, name)]
                        /\ file' = save_config(Popped(config, name))
                /\ UNCHANGED <<conn_vars, got, io>>

\* connect() gave up: exit_on_fail ends the process with sys.exit(1)
SaveConnectExit ==
    /\ cli.pc = "connect" /\ conn.pc = "exited"
    /\ cli' = Exit("exited", conn.status, cli.config, cli.wrote)
    /\ NoConnection
    /\ UNCHANGED <<file, got, io>>

\* connect() returned, and with it __aenter__: get_height() issues its read
SaveConnected ==
    /\ cli.pc = "connect" /\ conn.pc = "returned"
    /\ cli' = [cli EXCEPT !.pc = "get_height"]
    /\ Get("get_height")
    /\ UNCHANGED <<file, conn_vars>>

\* the read of get_height() returned raw: the block is left and __aexit__
\* awaits disconnect()
SaveRead(raw) ==
    /\ cli.pc = "get_height"
    /\ GetRead(raw)
    /\ cli' = [cli EXCEPT !.pc = "disconnect"]
    /\ UNCHANGED <<file, conn_vars>>

\* the read of get_height() raised: the block is left the same way
SaveReadFailed ==
    /\ cli.pc = "get_height"
    /\ GetFailed
    /\ cli' = [cli EXCEPT !.pc = "disconnect"]
    /\ UNCHANGED <<file, conn_vars>>

\* disconnect() is over (ok: it returned): an exception of the block or of
\* disconnect() ends the process, and so does the KeyError of a
\* configuration without positions; otherwise the height is assigned to the
\* name, the configuration is saved and save returns 0
SaveDisconnected(ok) ==
    /\ cli.pc = "disconnect"
    /\ IF got.pc = "raised" \/ ~ok \/ ~cli.config.positions_key
       THEN /\ cli' = Exit("raised", 1, cli.config, cli.wrote)
            /\ file' = file
       ELSE LET config == Assigned(cli.config, cli.name, got.result[1])
            IN  /\ cli' = Exit("ended", 0, config, Append(cli.wrote, "save"))
                /\ file' = save_config(config)
    /\ NoConnection
    /\ got' = NoRead
    /\ UNCHANGED io

InitCli == Constructed(TRUE) /\ services = DeskServices /\ devices = <<>> /\ desk = NoDesk
           /\ file \in ConfigFiles

NextCli ==
    \/ \E sub \in {"save", "delete"}, name \in CliNames, mac_address \in MacAddresses \cup {""} :
          Main(sub, name, mac_address) /\ UNCHANGED cli_rest
    \/ cli.pc = "connect" /\ ConnectDone /\ UNCHANGED <<cli_vars, got, io, cli_rest>>
    \/ cli.pc = "connect" /\ WakeupWriteDone /\ UNCHANGED <<cli_vars, got, io, cli_rest>>
    \/ cli.pc = "connect" /\ ConnectFailed /\ UNCHANGED <<cli_vars, got, io, cli_rest>>
    \/ cli.pc = "connect" /\ ConnectRetry /\ UNCHANGED <<cli_vars, got, io, cli_rest>>
    \/ SaveConnectExit /\ UNCHANGED cli_rest
    \/ SaveConnected /\ UNCHANGED cli_rest
    \/ \E raw \in SaveFrames : SaveRead(raw) /\ UNCHANGED cli_rest
    \/ SaveReadFailed /\ UNCHANGED cli_rest
    \/ \E ok \in BOOLEAN : SaveDisconnected(ok) /\ UNCHANGED cli_rest

SpecCli == InitCli /\ [][NextCli]_vars

----------------------------------------------------------------------------
(* Claims about the movement controller *)

\* what move_to_target and stop may change besides the record of the call
session == <<_moving, _move_task, tasks, stops, io>>

\* whether the transport call issued last is a write of a height by a do_move task
TargetWrite(k) ==
    io.kind = "write" /\ io.uuid = _UUID_REFERENCE_INPUT /\ io.by = k

\* C1: at most one move loop (do_move task) is in flight at any time, under
\* every interleaving of move_to_target() and stop() calls.
C1_AtMostOneMoveLoop == Cardinality(InFlight) <= 1

\* C2: a move_to_target(t) with t in range, called while is_moving is true,
\* ends as "already moving" without raising, issues no transport call,
\* creates no task, keeps the task handle and leaves is_moving true; every
\* height written to the reference input is the target of the task of an
\* accepted call.
C2_RejectedMoveChangesNothing ==
    [][/\ \A t \in Targets :
            (MoveToTarget(t) /\ _moving /\ t >= MIN_HEIGHT /\ t <= MAX_HEIGHT)
                => (event'.outcome = "already_moving" /\ UNCHANGED session /\ _moving')
       /\ \A k \in TaskIds :
            TargetWrite(k)' => (k \in Created' /\ io'.data = _meters_to_bytes(tasks'[k].target))
      ]_vars

\* C2 happens: a call was rejected while a move loop was writing heights
C2_Witness ==
    /\ event.op = "move_to_target" /\ event.outcome = "already_moving"
    /\ _moving
    /\ \E k \in InFlight : TargetWrite(k)

\* C3: once an accepted move_to_target has returned or raised, is_moving is
\* false, also when the move loop ended with a transport failure.
C3_InactiveAfterMove ==
    (event.op = "move_to_target" /\ event.outcome \in {"returned", "raised"}) => ~_moving

\* C4: once a stop() has issued a hardware stop write, every move loop that
\* was in flight when that stop() was called has finished, so that none of
\* them writes a height afterwards.  (The tasks in flight at the call are
\* among those numbered up to the handle the call read; a finished task
\* stays finished.)
C4_StopWritesAfterMoveLoop ==
    \A c \in StopIds :
        stops[c].pc \in {"gather1", "gather1x", "gather2", "gather2x"} => \A k \in 1..stops[c].task : Finished(k)

\* C5 as claimed: when stop() was called while the move of the task handle
\* was in progress and has returned, is_moving is false and the
\* move_to_target call that started that move has ended.
C5_StopLeavesIdle ==
    (event.op = "stop" /\ event.outcome = "returned" /\ event.live)
        => (~_moving /\ tasks[event.task].caller = "ended")

\* C5 as amended: when stop() was called while the move loop of the task
\* handle was in flight and has returned, that loop has finished, the
\* move_to_target call that started it has ended, and is_moving is false
\* unless a move_to_target was accepted after stop() was called.
C5_StopAwaitsMove ==
    (event.op = "stop" /\ event.outcome = "returned" /\ event.live)
        => /\ tasks[event.task].pc = "done"
           /\ tasks[event.task].caller = "ended"
           /\ _moving => event.accepted

\* C5 happens: a stop() called during a move has returned
C5_Witness ==
    /\ event.op = "stop" /\ event.outcome = "returned" /\ event.live
    /\ ~_moving

\* C6: every stop() call that has ended, however it ended, has issued both
\* hardware stop writes.
C6_StopAlwaysWrites == event.op = "stop" => event.wrote = 2

\* C7: move_to_target(t) raises the range error exactly when t is below
\* MIN_HEIGHT or above MAX_HEIGHT, and then without a transport call and
\* without a change of is_moving, of the task handle or of any task; the
\* two limits themselves are not refused.
C7_RangeErrorBeforeAnyEffect ==
    [][\A t \in Targets :
         MoveToTarget(t) =>
            IF t < MIN_HEIGHT \/ t > MAX_HEIGHT
            THEN event'.outcome = "ValueError" /\ UNCHANGED session
            ELSE event'.outcome # "ValueError"
      ]_vars

\* C7 happens: a range error was raised during a move, after moves to both
\* limits had been accepted
C7_Witness ==
    /\ event.op = "move_to_target" /\ event.outcome = "ValueError"
    /\ _moving
    /\ \E j, k \in Created : tasks[j].target = MIN_HEIGHT /\ tasks[k].target = MAX_HEIGHT

\* C8: while the move loop of an accepted move_to_target is in flight and
\* stop() has not been called since the call was accepted, is_moving is true
\* (so it is true at every transport call the loop issues).
C8_MovingWhileMoveRuns == \A k \in InFlight : ~tasks[k].stopped => _moving

----------------------------------------------------------------------------
(* Claims about connect *)

\* how often the connect() call did `what`
Count(what) == Cardinality({n \in DOMAIN trace : trace[n].what = what})

IsWarning(e) == e.what = "warning"

\* the retry numbers of the warnings the connect() call logged, in order
WarningNumbers ==
    LET w == SelectSeq(trace, IsWarning) IN [n \in 1..Len(w) |-> w[n].n]

\* whether connect() has ended without connecting
GaveUp == conn.pc \in {"raised", "exited"}

\* C9: a connect() call that gives up has made exactly RETRY_COUNT + 1 = 4
\* attempts, has logged the warnings 1/3, 2/3 and 3/3 and then one critical
\* message, which is the last thing it did, and has ended the process with
\* status 1 when exit_on_fail is set and raised otherwise; a call that has
\* not given up has logged no critical message.
C9_ExhaustedRetries ==
    /\ GaveUp =>
          /\ Count("connect") = RETRY_COUNT + 1
          /\ Count("connect") = 4
          /\ WarningNumbers = <<1, 2, 3>>
          /\ Count("critical") = 1
          /\ trace[Len(trace)] = Critical
          /\ (conn.pc = "exited") <=> _exit_on_fail
          /\ conn.pc = "exited" => conn.status = 1
    /\ Count("critical") > 0 => GaveUp

\* C9 happens: every attempt failed, one of them in wakeup(), and the
\* process was ended
C9_Witness ==
    /\ conn.pc = "exited"
    /\ Count("connect") = 4
    /\ Count("write") > 0

\* C10: a connect() call goes on to the next attempt after each of its first
\* three failed attempts, and when attempt k + 1 succeeds after k failed ones
\* (0 <= k <= 3) it returns with is_connected true, k warnings logged and no
\* critical message.
C10_ConnectsAfterRetries ==
    [][/\ (conn.pc \in {"await_connect", "await_dpg1", "await_dpg2", "await_wakeup"}
             /\ conn'.pc \notin {conn.pc, "await_dpg1", "await_dpg2", "await_wakeup", "returned"}
             /\ Count("connect") <= RETRY_COUNT)
          => conn'.pc = "sleeping"
       /\ (conn.pc # "returned" /\ conn'.pc = "returned")
          => /\ is_connected'
             /\ Count("connect")' - 1 \in 0..RETRY_COUNT
             /\ Count("warning")' = Count("connect")' - 1
             /\ Count("critical")' = 0
      ]_vars

\* C10 happens: the fourth attempt succeeded after three failed ones
C10_Witness ==
    /\ conn.pc = "returned"
    /\ is_connected
    /\ Count("warning") = 3
    /\ Count("connect") = 4

\* C11: the wake sequence does not make connect() fail: a connect() call
\* gives up only on an attempt whose transport connect failed, never on one
\* whose transport connect succeeded and whose wake writes failed.
C11_WakeFailureTolerated == GaveUp => trace[Len(trace) - 1] = Attempt

\* C12: is_connected follows the transport's connected state: it is false
\* before the first connect(), true when a connect() call returns (so on
\* entry to an `async with` block), false after disconnect() (so after
\* leaving the block) and after the transport dropped the link, and it
\* changes with nothing but a transport connect, a disconnect() or a drop.
C12_IsConnectedLive ==
    [][/\ conn.pc = "idle" => ~IdasenDesk_is_connected
       /\ (conn.pc # "returned" /\ conn'.pc = "returned") => IdasenDesk_is_connected'
       /\ Disconnect => ~IdasenDesk_is_connected'
       /\ Drop => ~IdasenDesk_is_connected'
       /\ (IdasenDesk_is_connected' # IdasenDesk_is_connected)
             => (ConnectDone \/ Disconnect \/ Drop)
      ]_vars

\* C12 happens: a connect() call had returned after a retry, and the link is
\* down again
C12_Witness ==
    /\ conn.pc = "returned"
    /\ Count("warning") = 1
    /\ ~IdasenDesk_is_connected

----------------------------------------------------------------------------
(* Claims about monitor *)

\* the actuator lacks the output service, or that service lacks the
\* characteristic of heights and speeds
TelemetryAbsent ==
    \A n \in DOMAIN services :
        services[n].uuid = output_service_uuid => output_char_uuid \notin services[n].chrs

\* C13: a monitor() call with a callback of any number of parameters other
\* than 1 or 2 raises the ValueError without a transport call and without
\* registering a notification handler.
C13_InvalidCallbackBeforeSubscribing ==
    [][\A n \in ParamCounts :
         (Monitor(n) /\ n # 1 /\ n # 2)
            => /\ mon'.pc = "raised" /\ mon'.outcome = "ValueError"
               /\ mon'.issued = 0
               /\ UNCHANGED <<listeners, received, calls>>
      ]_vars

\* C13 happens: a callback with three parameters was refused after a
\* callback with two had been registered
C13_Witness ==
    /\ mon.outcome = "ValueError" /\ mon.params = 3
    /\ Len(listeners) = 1 /\ listeners[1].callback = 2

Delivered(l) == received'.n = received.n + 1 /\ received'.listener = l

\* the reading of the notification delivered in this step, and of the one before
NewReading == _bytes_to_meters_and_speed(received'.data)
OldReading == _bytes_to_meters_and_speed(received.data)

\* the callback is invoked in this step
Dispatched == calls'.n = calls.n + 1

\* listener l has dispatched a reading before, and no other listener since
HasDispatched(l) == calls.n > 0 /\ calls.listener = l

Distance(a, b) == IF a >= b THEN a - b ELSE b - a

\* how far the new reading is from the reading dispatched last
HeightStep == Distance(NewReading.meters, calls.args[1])
SpeedStep ==
    IF Len(calls.args) = 2 THEN Distance(NewReading.speed, calls.args[2]) ELSE 0

\* the callback of listener l takes a speed
TakesSpeed(l) == listeners[l].callback = 2

\* C15 as claimed: a reading is dispatched only if it differs from the
\* reading dispatched last by more than 0.001 m in height or, with a speed
\* tracked, by more than 0.001 m/s in speed; of two consecutive frames whose
\* heights differ by less than 0.001 m the first is dispatched and the
\* second is not.
C15_DispatchAboveThreshold ==
    [][\A l \in DOMAIN listeners :
         (Delivered(l) /\ NewReading.ok) =>
            /\ (HasDispatched(l) /\ Dispatched)
                 => (HeightStep > Threshold \/ (TakesSpeed(l) /\ SpeedStep > Threshold))
            /\ (received.n > 0 /\ received.listener = l /\ OldReading.ok
                   /\ Distance(NewReading.meters, OldReading.meters) < Threshold)
                 => (calls.frame = received.n /\ ~Dispatched)
      ]_vars

\* C15 as amended: a reading is dispatched only if it differs from the
\* reading dispatched last by at least 0.001 m in height or, with a speed
\* tracked, by at least 0.001 m/s in speed; of the first two frames delivered
\* to a listener, when their heights differ by less than 0.001 m and, with a
\* speed tracked, their speeds by less than 0.001 m/s, the first is
\* dispatched and the second is not.
C15_DispatchAtThreshold ==
    [][\A l \in DOMAIN listeners :
         (Delivered(l) /\ NewReading.ok) =>
            /\ (HasDispatched(l) /\ Dispatched)
                 => (HeightStep >= Threshold \/ (TakesSpeed(l) /\ SpeedStep >= Threshold))
            /\ (received.n = 1 /\ received.listener = l /\ OldReading.ok
                   /\ Distance(NewReading.meters, OldReading.meters) < Threshold
                   /\ (TakesSpeed(l) => Distance(NewReading.speed, OldReading.speed) < Threshold))
                 => (calls.n = 1 /\ calls.frame = 1 /\ ~Dispatched)
      ]_vars

\* C15 happens: after a reading 0.0005 m from the first was suppressed, a
\* reading exactly 0.001 m from the first, the one dispatched last, was
\* dispatched
C15_Witness ==
    /\ received.n = 3
    /\ calls.n = 2 /\ calls.frame = 3
    /\ calls.args = <<MIN_HEIGHT + 100>>
    /\ listeners[1].previous_height = MIN_HEIGHT + 100

\* C16 as claimed: with a callback of one parameter a reading whose height is
\* less than 0.001 m from the height dispatched last is not dispatched,
\* whatever its speed; with a callback of two parameters such a reading is
\* dispatched when its speed differs from the speed dispatched last by at
\* least 0.001 m/s; readings reach the callback in the order of delivery.
C16_SpeedAtThreshold ==
    [][\A l \in DOMAIN listeners :
         (Delivered(l) /\ NewReading.ok) =>
            /\ (HasDispatched(l) /\ ~TakesSpeed(l) /\ HeightStep < Threshold) => ~Dispatched
            /\ (HasDispatched(l) /\ TakesSpeed(l) /\ HeightStep < Threshold
                   /\ SpeedStep >= Threshold) => Dispatched
            /\ Dispatched => (calls'.frame = received'.n /\ calls'.frame > calls.frame)
      ]_vars

\* C16 as amended: as claimed, but with a callback of two parameters the
\* reading is dispatched when its speed differs from the speed dispatched
\* last by more than 0.001 m/s.
C16_SpeedAboveThreshold ==
    [][\A l \in DOMAIN listeners :
         (Delivered(l) /\ NewReading.ok) =>
            /\ (HasDispatched(l) /\ ~TakesSpeed(l) /\ HeightStep < Threshold) => ~Dispatched
            /\ (HasDispatched(l) /\ TakesSpeed(l) /\ HeightStep < Threshold
                   /\ SpeedStep > Threshold) => Dispatched
            /\ Dispatched => (calls'.frame = received'.n /\ calls'.frame > calls.frame)
      ]_vars

\* C16 happens: a callback of one parameter was not invoked for a reading at
\* the height dispatched last whose speed was 0.0012 m/s from the one before
C16_Witness ==
    /\ received.n = 2 /\ calls.n = 1
    /\ listeners[1].callback = 1
    /\ listeners[1].previous_speed = 0
    /\ received.data = Frame(0, 12)

----------------------------------------------------------------------------
(* Claims about the unit codec *)

\* C17: decoding fails for every frame whose length is not 4, shorter or
\* longer: no reading comes of it.
C17_DecodeLength ==
    (codec.op = "decode" /\ Len(codec.arg) # 4)
        => (~codec.ok /\ codec.meters = 0 /\ codec.speed = 0)

\* C17 happens: a frame of five bytes was refused
C17_Witness == codec.op = "decode" /\ Len(codec.arg) = 5 /\ ~codec.ok

\* C18: a frame of 4 bytes decodes to the height MIN_HEIGHT plus the
\* unsigned little-endian counter of bytes 0 and 1, and to the speed of the
\* signed little-endian counter of bytes 2 and 3, negative exactly when byte
\* 3 is 0x80 or more; 64 19 00 00 gives MAX_HEIGHT, 00 00 00 00 MIN_HEIGHT,
\* 51 04 00 00 the counter 1105 (0.7305 m), 08 08 02 01 the counter 2056
\* (0.8256 m) and the speed counter 258 (0.0258 m/s).
C18_DecodeValues ==
    (codec.op = "decode" /\ Len(codec.arg) = 4) =>
        LET raw == codec.arg
            unsigned == raw[3] + 256 * raw[4]
        IN  /\ codec.ok
            /\ codec.meters = MIN_HEIGHT + 10 * (raw[1] + 256 * raw[2])
            /\ codec.speed = 10 * (IF raw[4] >= 128 THEN unsigned - 65536 ELSE unsigned)
            /\ (codec.speed < 0) <=> (raw[4] >= 128)
            /\ raw = <<100, 25, 0, 0>> => (codec.meters = MAX_HEIGHT /\ codec.speed = 0)
            /\ raw = <<0, 0, 0, 0>> => (codec.meters = MIN_HEIGHT /\ codec.speed = 0)
            /\ raw = <<81, 4, 0, 0>> => (codec.meters = 73050 /\ codec.speed = 0)
            /\ raw = <<8, 8, 2, 1>> => (codec.meters = 82560 /\ codec.speed = 2580)

\* C18 happens: a frame with the largest height and the speed counter -1
\* was decoded
C18_Witness ==
    /\ codec.op = "decode" /\ codec.arg = <<255, 255, 255, 255>>
    /\ codec.speed = 0 - 10

\* C19: the encoder gives the little-endian counter nearest to the height's
\* offset from MIN_HEIGHT, for every height from MIN_HEIGHT to MAX_HEIGHT
\* (heights halfway between two counters left aside).
C19_EncodeRounds ==
    (codec.op = "encode" /\ (codec.arg[1] - MIN_HEIGHT) % 10 # 5)
        => U16LE(codec.bytes[1], codec.bytes[2]) = (codec.arg[1] - MIN_HEIGHT + 5) \div 10

\* C20: encoding a height from MIN_HEIGHT to MAX_HEIGHT and decoding the two
\* bytes as the height of a frame gives the height back within 0.0001 m, and
\* exactly for a height that is a whole number of counter units above
\* MIN_HEIGHT.
C20_RoundTrip ==
    codec.op = "decode_encoded" =>
        /\ codec.ok
        /\ Distance(codec.meters, codec.arg[1]) <= 10
        /\ (codec.arg[1] - MIN_HEIGHT) % 10 = 0 => codec.meters = codec.arg[1]

----------------------------------------------------------------------------
(* Claims about the reported values *)

\* a getter that reports a height has returned
HeightReported == got.pc = "returned" /\ got.fn # "get_speed"

\* the height counter of the frame the getter read
CounterRead == got.raw[1] + 256 * got.raw[2]

SpeedRead ==
    IF got.raw[3] + 256 * got.raw[4] >= 32768 THEN got.raw[3] + 256 * got.raw[4] - 65536
    ELSE got.raw[3] + 256 * got.raw[4]

\* C23: each call of get_height(), get_speed() or get_height_and_speed()
\* issues exactly one read of the telemetry characteristic and no write,
\* returns the decoding of the frame that read delivered, whatever the call
\* before it read, and leaves _moving and _move_task as they were.
C23_GetIsOneRead ==
    [][got' # got =>
        /\ got'.reads = 1 /\ got'.writes = 0
        /\ io' # io => (io'.kind = "read" /\ io'.uuid = _UUID_HEIGHT)
        /\ (got.pc # "await_read") => (io'.kind = "read" /\ io'.uuid = _UUID_HEIGHT)
        /\ (got.pc = "await_read") => io' = io
        /\ got'.pc = "returned" =>
              LET height == MIN_HEIGHT + 10 * CounterRead'
                  speed == 10 * SpeedRead'
              IN  got'.result = (IF got'.fn = "get_height" THEN <<height>>
                                 ELSE IF got'.fn = "get_speed" THEN <<speed>>
                                 ELSE <<height, speed>>)
        /\ UNCHANGED <<_moving, _move_task>>]_vars

\* C23 happens: get_speed returned the speed of the frame it read, which is
\* not the frame the call before it read
C23_Witness ==
    /\ got.pc = "returned" /\ got.fn = "get_speed"
    /\ Len(got.before) = 4 /\ got.before # got.raw
    /\ got.before[3] = 0 /\ got.raw[3] = 255
    /\ got.result = <<0 - 10>>

\* the detected advertisements that carry the desk's service identifier
Desks == {i \in 1..Len(devices) : _UUID_ADV_SVC \in devices[i].adv.service_uuids}

\* C22: discover() makes exactly one scan, filtered by the advertised
\* service identifier, and never raises: it returns the address of the
\* matching device the scan found, None when the scan found none, and None
\* when the scan itself raised.
C22_DiscoverNeverRaises ==
    /\ scan.pc \in {"idle", "scanning", "returned"}
    /\ scan.pc # "idle" => (scan.scans = 1 /\ scan.filter = "_is_desk")
    /\ scan.pc = "returned" =>
          IF scan.scanner = "raised" \/ Desks = {} THEN scan.result = <<>>
          ELSE \E i \in Desks : /\ \A j \in Desks : i <= j
                                 /\ scan.result = <<devices[i].device.address>>

\* C22 happens: the scan detected another device first and then a desk, and
\* discover returned the desk's address
C22_Witness ==
    /\ scan.pc = "returned" /\ scan.scanner = "device"
    /\ Len(devices) = 2 /\ Desks = {2}
    /\ devices[1].device.address # devices[2].device.address
    /\ scan.result = <<devices[2].device.address>>

----------------------------------------------------------------------------
(* Claims about a move against an actuator *)

\* the move_to_target() call that ended last returned
MoveReturned == event.op = "move_to_target" /\ event.outcome = "returned"

\* the task of the move_to_target() call accepted last, 0 when there is none
Latest == Cardinality(Created)

\* C24: against an actuator that moves toward the height written by at most
\* a fixed step on each reference-input write, and reports a speed other
\* than zero exactly while it is not at that height, every accepted
\* move_to_target(t) eventually returns, with the actuator within 0.001 m of
\* t and _moving false, from every starting height.
C24_MoveReachesTarget ==
    \A k \in TaskIds :
        (desk.mode = "moves" /\ tasks[k].caller = "awaiting")
            ~> (/\ tasks[k].caller = "ended" /\ MoveReturned
                /\ ~_moving
                /\ Distance(desk.height, tasks[k].target) < Threshold)

\* C24 happens: a move from 1.0 m to 0.7 m has returned with the actuator at
\* 0.6999 m
C24_Witness ==
    /\ desk.mode = "moves" /\ desk.first = 100000
    /\ Latest = 1 /\ tasks[1].target = 70000 /\ tasks[1].caller = "ended"
    /\ MoveReturned /\ ~_moving
    /\ desk.height = 69990

C27_ReturnsOnlyAfterZeroSpeed == MoveReturned => desk.polled = "zero"

\* C27: move_to_target has no timeout.  When its first height reading is not
\* the target, every speed reading other than zero is followed by another
\* write of the target, so that against an actuator that never reports speed
\* zero the loop writes again and again and the call never returns; a call
\* that returns has read the speed zero, or has found the first height
\* reading equal to the target and written nothing.
C27_NoTimeout ==
    /\ [][\A k \in TaskIds :
            (tasks[k].pc = "await_speed" /\ tasks'[k].pc # "await_speed"
                /\ desk'.polled = "nonzero")
            => /\ tasks'[k].pc = "await_ref"
               /\ io' = Transport("write", _UUID_REFERENCE_INPUT, _meters_to_bytes(tasks[k].target),
                                   "default", k)]_vars
    /\ [](MoveReturned =>
            \/ desk.polled = "zero"
            \/ desk.polled = "none" /\ desk.first = tasks[Latest].target)
    /\ [](desk.mode = "runaway" /\ Latest > 0 /\ tasks[Latest].pc = "done"
            => (desk.polled = "none" /\ desk.first = tasks[Latest].target))
    /\ \A k \in TaskIds :
          (desk.mode = "runaway" /\ tasks[k].pc = "await_speed") ~> (tasks[k].pc = "await_ref")

\* C27 happens: against an actuator that never reports speed zero the loop
\* has issued another write after a poll, with the actuator already at the
\* target
C27_Witness ==
    /\ desk.mode = "runaway" /\ desk.polled = "nonzero"
    /\ desk.height = desk.requested
    /\ Latest = 1 /\ tasks[1].pc = "await_ref" /\ tasks[1].caller = "awaiting"

\* whether the height of the frame the last poll read lies on the other side
\* of the first height reading than task k's target, by 0.001 m or more
Opposite(k) ==
    /\ desk.first # 0 /\ desk.read # 0
    /\ \/ tasks[k].target > desk.first /\ desk.read + Threshold <= desk.first
       \/ tasks[k].target < desk.first /\ desk.read >= desk.first + Threshold

\* C28: when a poll of the move loop delivers a height on the other side of
\* the first height reading than the target, the loop ends there and no
\* further movement command is written.
C28_SafetyAbort ==
    [][\A k \in TaskIds :
          (tasks[k].pc = "await_speed" /\ tasks'[k].pc # "await_speed" /\ Opposite(k)')
          => (tasks'[k].pc = "done" /\ io' = io)]_vars

----------------------------------------------------------------------------
(* Claims about the order of the move loop *)

\* a write by task k as the transport takes it
TaskWrite(k, uuid, data) == Transport("write", uuid, data, "default", k)

\* C26: in an accepted move WAKEUP and then STOP are written to the command
\* characteristic before the first reference-input write; each iteration
\* writes the encoded target to the reference-input characteristic, sleeps
\* 0.2 s and then reads the speed; the loop ends at the first iteration whose
\* speed reading is exactly zero or whose start finds _moving false, and the
\* task issues no transport call after that.
C26_MoveLoopOrder ==
    [][\A k \in TaskIds :
          LET pc == tasks[k].pc
              next == tasks'[k].pc
          IN  /\ pc # next =>
                    /\ next = "await_wakeup" =>
                          (pc = "await_height"
                              /\ io' = TaskWrite(k, _UUID_COMMAND, _COMMAND_WAKEUP))
                    /\ next = "await_stop" =>
                          (pc = "await_wakeup" /\ io' = TaskWrite(k, _UUID_COMMAND, _COMMAND_STOP))
                    /\ next = "await_ref" =>
                          /\ io' = TaskWrite(k, _UUID_REFERENCE_INPUT,
                                             _meters_to_bytes(tasks[k].target))
                          /\ _moving
                          /\ \/ pc = "await_stop"
                             \/ /\ pc = "await_speed"
                                /\ Len(tasks'[k].speed) = 1 /\ tasks'[k].speed[1] # 0
                    /\ pc = "await_ref" => next \in {"sleeping", "failed"}
                    /\ next = "sleeping" => (tasks'[k].sleep = 2 /\ io' = io)
                    /\ pc = "sleeping" =>
                          (next = "await_speed"
                              /\ io' = Transport("read", _UUID_HEIGHT, <<>>, "none", k))
                    /\ next = "await_speed" => pc = "sleeping"
                    /\ (pc = "await_speed" /\ next # "failed") =>
                          ((next = "done") <=> (tasks'[k].speed = <<0>> \/ ~_moving))
                    /\ (pc = "await_stop" /\ next # "failed") => ((next = "done") <=> ~_moving)
                    /\ next = "done" => io' = io
              /\ Finished(k) => (next = pc /\ (io' # io => io'.by # k))]_vars

\* C26 happens: a task wrote the target a second time after a speed reading
\* other than zero, and another task left the loop on a speed reading of zero
C26_Witness ==
    /\ tasks[1].pc = "done" /\ tasks[1].speed = <<0>>
    /\ tasks[2].pc = "await_ref" /\ tasks[2].speed = <<10>>
    /\ io = TaskWrite(2, _UUID_REFERENCE_INPUT, _meters_to_bytes(tasks[2].target))

----------------------------------------------------------------------------
(* Claims about the waits of connect *)

\* the places of the trace where connect() slept
Sleeps == {n \in DOMAIN trace : trace[n].what = "sleep"}

\* C29: connect() sleeps 0.3 * i seconds right after the warning for its
\* i-th failed attempt, i = 1, 2, 3: one sleep per warning, each longer than
\* the one before, none before the first attempt and none after the failure
\* that gives up.
C29_BackoffWaits ==
    /\ trace # <<>> => trace[1] = Attempt
    /\ \A n \in DOMAIN trace :
          /\ trace[n].what = "warning" =>
                (n + 1 \in Sleeps /\ trace[n + 1].n = 3 * trace[n].n)
          /\ n \in Sleeps =>
                /\ n > 1 /\ trace[n - 1].what = "warning"
                /\ trace[n].n = 3 * Cardinality({m \in Sleeps : m <= n})
                /\ trace[n].n \in {3, 6, 9}
                /\ \A m \in Sleeps : m < n => trace[m].n < trace[n].n
          /\ trace[n] = Critical => (n = Len(trace) /\ Cardinality(Sleeps) = RETRY_COUNT)
    /\ Cardinality(Sleeps) = Count("warning")
    /\ (conn.pc = "sleeping") <=> (trace # <<>> /\ Len(trace) \in Sleeps)

\* C29 happens: connect() gave up after sleeping 0.3 s, 0.6 s and 0.9 s
C29_Witness ==
    /\ GaveUp
    /\ {trace[n].n : n \in Sleeps} = {3, 6, 9}
    /\ trace[Len(trace)] = Critical

----------------------------------------------------------------------------
(* Claims about transport failures outside connect *)

\* the places of a do_move task and of a stop() where a transport call is
\* awaited
TaskAwaits == {"await_height", "await_wakeup", "await_stop", "await_ref", "await_speed"}

\* a step in which the transport call that task k awaits fails: the read or
\* write raises, or the frame read cannot be decoded
TaskCallFails(k) == tasks[k].pc \in TaskAwaits /\ tasks'[k].pc = "failed"

\* what C30 says of the move loop and of the reads in it: the failure of a
\* call ends the task in that step with no call issued, a failed task
\* issues none later and is not resumed, and move_to_target raises
FailureEndsMove ==
    \A k \in TaskIds :
        /\ TaskCallFails(k) => io' = io
        /\ tasks[k].pc = "failed" =>
              /\ tasks'[k].pc = "failed"
              /\ io' # io => io'.by # k
              /\ (tasks[k].caller = "awaiting" /\ tasks'[k].caller = "ended") =>
                    (event'.op = "move_to_target" /\ event'.outcome = "raised")

----------------------------------------------------------------------------
(* Claims about the connection state of a connect() call *)

ConnectAwaits == {"await_connect", "await_dpg1", "await_dpg2", "await_wakeup"}

\* an attempt of connect() fails in this step: its transport connect or a
\* write of wakeup() raised, and connect() sleeps before the next attempt or
\* gives up
AttemptFails == conn.pc \in ConnectAwaits /\ conn'.pc \in {"sleeping", "raised", "exited"}

\* C31: a failed attempt of connect() leaves the desk disconnected: when
\* connect() goes into a retry or gives up, is_connected is false, also when
\* the transport connect of the attempt had succeeded and a write of the
\* wake sequence failed.
C31_FailedAttemptDisconnects == [][AttemptFails => ~IdasenDesk_is_connected']_vars

\* what an attempt of connect() that succeeds does, in order: the transport
\* connect, the two writes to the DPG characteristic, WAKEUP
SuccessfulAttempt ==
    <<Attempt, Write(_UUID_DPG, _DPG_STAGE_1), Write(_UUID_DPG, _DPG_STAGE_2),
      Write(_UUID_COMMAND, _COMMAND_WAKEUP)>>

\* the last n things the connect() call did
Last(n) == SubSeq(trace, Len(trace) - n + 1, Len(trace))

\* whether this step issues a write of the wake sequence
WakeWriteIssued == Len(trace') = Len(trace) + 1 /\ trace'[Len(trace')].what = "write"

\* C32: connect() returns only after the attempt that succeeded has written,
\* in this order, the two stages to the DPG characteristic and then WAKEUP to
\* the command characteristic, all three after the transport connect of that
\* attempt: while the transport connect of an attempt is awaited the attempt
\* has written nothing, and its first write is issued in the step in which the
\* transport connect completes.
C32_WakeBeforeReturn ==
    /\ [](conn.pc = "returned" => (Len(trace) >= 4 /\ Last(4) = SuccessfulAttempt))
    /\ [](conn.pc = "await_connect" => trace[Len(trace)] = Attempt)
    /\ [][WakeWriteIssued =>
            /\ conn.pc \in {"await_connect", "await_dpg1", "await_dpg2"}
            /\ IdasenDesk_is_connected'
            /\ conn.pc = "await_connect" =>
                  (ConnectDone /\ trace'[Len(trace')] = Write(_UUID_DPG, _DPG_STAGE_1))
            /\ conn.pc = "await_dpg1" => Last(2)' = SubSeq(SuccessfulAttempt, 2, 3)
            /\ conn.pc = "await_dpg2" => Last(3)' = SubSeq(SuccessfulAttempt, 2, 4)]_vars

\* C32 happens: connect() has returned from its third attempt, after an
\* attempt that failed in the wake sequence
C32_Witness ==
    /\ conn.pc = "returned"
    /\ Count("connect") = 3
    /\ Count("write") > 3
    /\ Last(4) = SuccessfulAttempt

----------------------------------------------------------------------------
(* Claims about a move that starts at its target *)

\* the read of the telemetry characteristic that task k issues
TaskRead(k) == Transport("read", _UUID_HEIGHT, <<>>, "none", k)

\* whether task k, the task accepted last, has ended on its first height
\* reading, which was its target
EndedAtTarget(k) == k = Latest /\ tasks[k].pc = "done" /\ desk.first = tasks[k].target

\* C33: when the first height reading of an accepted move equals its target,
\* the move writes nothing: do_move ends in the step that takes the reading,
\* the read is the only transport call of the task, the actuator is left as
\* it was, and move_to_target returns with _moving false.
C33_AtTargetWritesNothing ==
    /\ [][\A k \in TaskIds :
            /\ (tasks[k].pc = "new" /\ tasks'[k].pc # "new") => io' = TaskRead(k)
            /\ (tasks[k].pc = "await_height" /\ tasks'[k].pc # "await_height"
                   /\ desk'.first = tasks[k].target)
               => /\ tasks'[k].pc = "done"
                  /\ io' = io
                  /\ desk'.height = desk.height /\ desk'.requested = desk.requested
            /\ (EndedAtTarget(k) /\ tasks[k].caller = "awaiting" /\ tasks'[k].caller # "awaiting")
               => (MoveReturned' /\ ~_moving' /\ io' = io /\ desk' = desk)]_vars
    /\ [](\A k \in TaskIds :
            EndedAtTarget(k)
            => /\ io = TaskRead(k)
               /\ desk.polled = "none"
               /\ k = 1 => desk.requested = 0
               /\ tasks[k].caller = "ended" => (MoveReturned /\ ~_moving))

\* C33 happens: a move to 1.0 m with the actuator at 1.0 m has returned, and
\* the actuator was never written to
C33_Witness ==
    /\ EndedAtTarget(1) /\ tasks[1].target = 100000 /\ tasks[1].caller = "ended"
    /\ desk.height = 100000 /\ desk.requested = 0
    /\ MoveReturned /\ ~_moving
    /\ io = TaskRead(1)

----------------------------------------------------------------------------
(* Claims about the configuration file *)

\* the reserved names among the positions of the file f
ReservedPositions(f) == DOMAIN f.config.positions \cap RESERVED_NAMES

\* whether a process of the command line is at one of its awaits
CliRuns == cli.pc \in {"connect", "get_height", "disconnect"}

\* main() is called in this step
MainCalled == ~CliRuns /\ cli' # cli

\* C34: no run of save or delete puts a reserved name (init, monitor,
\* height, save, delete) among the positions of the configuration file:
\* whatever a run writes holds none, and a file without one stays without
\* one.  save with a reserved name returns 1 with no transport connect and
\* no write of its own; load_config ends the process with status 1 on a file
\* that holds one, before anything else is done; and a save that goes on to
\* the desk has a name that is not reserved and a configuration without
\* reserved names.
C34_NoReservedPositionPersisted ==
    /\ [][/\ file' # file => ReservedPositions(file') = {}
          /\ ReservedPositions(file) = {} => ReservedPositions(file') = {}]_vars
    /\ [][(MainCalled /\ cli'.sub = "save" /\ cli'.name \in RESERVED_NAMES)
            => /\ cli'.pc \in {"ended", "exited"}
               /\ cli'.pc = "ended" => cli'.rc = 1
               /\ cli'.pc = "exited" => (load_config.status = 1 \/ cli'.mac_address = "")
               /\ cli'.wrote = load_config.wrote
               /\ file' = load_config.file
               /\ UNCHANGED <<conn_vars, got, io>>
               /\ trace' = <<>> /\ ~IdasenDesk_is_connected']_vars
    /\ [][(MainCalled /\ ReservedPositions(file) # {})
            => /\ cli'.pc = "exited" /\ cli'.rc = 1
               /\ file' = file
               /\ UNCHANGED <<conn_vars, got, io>>]_vars
    /\ [](CliRuns => (/\ cli.sub = "save"
                      /\ cli.name \notin RESERVED_NAMES
                      /\ DOMAIN cli.config.positions \cap RESERVED_NAMES = {}))

\* C34 happens: after a save that wrote the position desk to the file, save
\* with the name height has returned 1, with no connect and the file as it
\* was
C34_Witness ==
    /\ cli.pc = "ended" /\ cli.sub = "save" /\ cli.name = "height" /\ cli.rc = 1
    /\ cli.wrote = <<>>
    /\ "desk" \in DOMAIN file.config.positions
    /\ file.config = cli.config
    /\ trace = <<>> /\ conn.pc = "idle" /\ ~IdasenDesk_is_connected

====
